---- MODULE Spec2Model ----
(***************************************************************************)
(* Model of go-ip-opt-gui: the scheduling engine (engine.Run and the       *)
(* per-domain pipeline RunOneDomain -> ResolveCandidates -> ProbeCandidate  *)
(* -> better) and the event channel between the engine callbacks and the   *)
(* UI loop (ui.loop, startRun).                                            *)
(*                                                                         *)
(* Spec   : engine.Run called once by an arbitrary caller, arguments drawn *)
(*          from bounded sets; the callbacks only record their calls.      *)
(* SpecUI : the UI loop; runs are started by the start button and the      *)
(*          callbacks are the closures of startRun, which send on uiCh.    *)
(*                                                                         *)
(* Durations are integers (time.Duration is an int64 of nanoseconds).      *)
(* Addresses are the integers 1..MaxAddr ordered as netip.Addr.Less orders *)
(* them; odd ones are IPv4, even ones IPv6.                                *)
(***************************************************************************)
EXTENDS Integers, Sequences, FiniteSets, TLC

\* ------------------------------------------------------------------ bounds
MaxDomains == 2
MaxWorkers == 2
MaxAttempts == 1
MaxAddr == 2
MaxTimeout == 1
\* uiCh is make(chan any, 256) in the source; the model scales the capacity
\* down. The non-blocking sends behave the same at every capacity: a send on
\* a channel holding UiChCap messages takes the default branch.
UiChCap == 2
\* how often a rejected start is followed (each appends a log line)
MaxRejects == 1
\* lines of the existing text of a merge, mappings of a rendered block
MaxLines == 4
MaxMappings == 2
\* seconds the clock advances, calls of WriteWithBackup and RestoreBackup
MaxClock == 1
MaxCalls == 2
\* trials of one candidate when a function of the engine is called on its own
MaxTrials == 3
\* addresses in one answer of a resolver
MaxAnswer == 2
\* characters of a text given to ParseDomains
MaxText == 5
\* clicks on the preview and write buttons that are followed
MaxClicks == 1

\* ------------------------------------------------------- program constants
MaxPort == 65535
\* the limits of isDomainName
MaxDomainLen == 253
MaxLabelLen == 63
LogCap == 500

ErrNil == "nil"
ErrCanceled == "context canceled"
ErrNoCandidate == "no candidate ip"
ErrDial == "dial error"
SystemVia == "system"
DNS1 == "dns1"
DNS2 == "dns2"
PaddedDNS1 == " dns1 "
BlankServer == "  "

Workers == 1..MaxWorkers
Addrs == 1..MaxAddr

\* ------------------------------------------------------------ Config.validate
\* (variant: the lower port check off by one, so that port 0 passes)
validatePortZero(c) ==
  IF c.Port < 0 \/ c.Port > MaxPort THEN "invalid port"
  ELSE IF c.Timeout <= 0 THEN "invalid timeout"
  ELSE IF c.Attempts <= 0 THEN "invalid attempts"
  ELSE IF c.Concurrency <= 0 THEN "invalid concurrency"
  ELSE IF ~c.IPv4 /\ ~c.IPv6 THEN "select ipv4 and/or ipv6"
  ELSE ErrNil

validate(c) ==
  IF c.Port <= 0 \/ c.Port > MaxPort THEN "invalid port"
  ELSE IF c.Timeout <= 0 THEN "invalid timeout"
  ELSE IF c.Attempts <= 0 THEN "invalid attempts"
  ELSE IF c.Concurrency <= 0 THEN "invalid concurrency"
  ELSE IF ~c.IPv4 /\ ~c.IPv6 THEN "select ipv4 and/or ipv6"
  ELSE ErrNil

\* ------------------------------------------------------------ netip.Addr
\* An address is an integer. The odd ones are IPv4, in their numeric order; -1
\* stands for 0.0.0.0. The even ones are IPv6: 0 stands for ::, the positive ones
\* are ordinary IPv6 addresses in their numeric order, and the negative ones
\* are the IPv4-mapped addresses ::ffff:a.b.c.d, which Is4 rejects and Is6
\* accepts.
Is4(ip) == ip % 2 = 1
Is6(ip) == ip % 2 = 0
IsUnspecified(ip) == ip \in {-1, 0}
Map4In6(a) == -(a + 3)
Is4In6(ip) == Is6(ip) /\ ip < 0
Unmap(ip) == IF Is4In6(ip) THEN -ip - 3 ELSE ip

\* Addr.String: the text of an address, never empty ("invalid IP" for the zero
\* Addr, which is the IP of NoStat). A text is a sequence of tokens.
String(ip) == IF ip = 0 THEN <<"invalid IP">> ELSE <<ip>>

\* Addr.Less: an IPv4 address sorts before an IPv6 address; :: is the lowest
\* IPv6 address and the IPv4-mapped ones come before the ordinary ones
Less(a, b) ==
  IF Is4(a) # Is4(b) THEN Is4(a)
  ELSE IF Is4In6(a) # Is4In6(b) THEN (IF Is4In6(a) THEN b # 0 ELSE a = 0)
  ELSE IF Is4In6(a) THEN Unmap(a) < Unmap(b)
  ELSE a < b

\* A net.IP is a byte slice: an address and the length of the slice, 4 or 16
\* for an IPv4 address, 16 for an IPv6 address, 0 for nil.
\* netip.AddrFromSlice keeps a 16-byte IPv4 address as an IPv4-mapped IPv6
\* address (there is no Unmap); ok is false for any other length.
AddrFromSliceOk(b) == b.len \in {4, 16}

AddrFromSlice(b) == IF b.len = 16 /\ Is4(b.a) THEN Map4In6(b.a) ELSE b.a

\* ------------------------------------------------------------ resolution
filterIPVersions(ips, ipv4, ipv6) ==
  SelectSeq(ips, LAMBDA ip : (Is4(ip) /\ ipv4) \/ (Is6(ip) /\ ipv6))

\* (variant: a later source overwrites the label of an address already seen)
addIPsOverwrite(seen, via, ips) ==
  LET new == {ip \in {ips[k] : k \in 1..Len(ips)} : ~IsUnspecified(ip)}
  IN [ip \in DOMAIN seen \cup new |-> IF ip \in new THEN via ELSE seen[ip]]

\* addIPs: the seen map keeps the label of the first source of an address.
\* seen is a function from the addresses seen so far to their label; an
\* unspecified address is skipped.
addIPs(seen, via, ips) ==
  LET new == {ip \in {ips[k] : k \in 1..Len(ips)} : ~IsUnspecified(ip)} \ DOMAIN seen
  IN [ip \in DOMAIN seen \cup new |-> IF ip \in DOMAIN seen THEN seen[ip] ELSE via]

\* lookupWithResolver answers an error (LookupErr) or a sequence of addresses.
LookupErr == [err |-> TRUE, ips |-> <<>>]
LookupOk(ips) == [err |-> FALSE, ips |-> ips]

\* lookupWithResolver on the answer of LookupIPAddr, an error or []net.IPAddr:
\* nil slices and slices of another length are skipped, the others converted
lookupWithResolver(raw) ==
  IF raw.err THEN LookupErr
  ELSE LET usable == SelectSeq(raw.ips, LAMBDA b : b.len # 0 /\ AddrFromSliceOk(b))
       IN LookupOk([k \in 1..Len(usable) |-> AddrFromSlice(usable[k])])

\* strings.TrimSpace on a server identifier
trimServer(s) ==
  CASE s = PaddedDNS1 -> DNS1
    [] s = BlankServer -> ""
    [] OTHER -> s

\* the loop over dnsServers: a blank identifier is skipped without a lookup,
\* a failed lookup is skipped, and the label is the trimmed identifier
RECURSIVE addServers(_, _, _, _, _, _)
addServers(seen, servers, answers, k, ipv4, ipv6) ==
  IF k > Len(servers) THEN seen
  ELSE IF trimServer(servers[k]) = "" \/ answers[k].err
       THEN addServers(seen, servers, answers, k + 1, ipv4, ipv6)
       ELSE addServers(addIPs(seen, trimServer(servers[k]),
                              filterIPVersions(answers[k].ips, ipv4, ipv6)),
                       servers, answers, k + 1, ipv4, ipv6)

\* (variant: the candidates in descending order)
RECURSIVE sortedCandidatesDesc(_, _)
sortedCandidatesDesc(seen, rest) ==
  IF rest = {} THEN <<>>
  ELSE LET ip == CHOOSE x \in rest : \A y \in rest : x = y \/ Less(y, x)
       IN <<[IP |-> ip, ResolvedVia |-> seen[ip]]>> \o sortedCandidatesDesc(seen, rest \ {ip})

\* sort.Slice by Addr.Less over the entries of the seen map
RECURSIVE sortedCandidates(_, _)
sortedCandidates(seen, rest) ==
  IF rest = {} THEN <<>>
  ELSE LET ip == CHOOSE x \in rest : \A y \in rest : x = y \/ Less(x, y)
       IN <<[IP |-> ip, ResolvedVia |-> seen[ip]]>> \o sortedCandidates(seen, rest \ {ip})

\* sysAns is the system resolver's answer, answers[k] that of servers[k].
ResolveCandidates(sysAns, servers, answers, ipv4, ipv6) ==
  LET seen0 == addIPs(<<>>, SystemVia, filterIPVersions(sysAns.ips, ipv4, ipv6))
      seen == addServers(seen0, servers, answers, 1, ipv4, ipv6)
  IN sortedCandidates(seen, DOMAIN seen)

\* ------------------------------------------------------------ statistics
RECURSIVE insertInt(_, _)
insertInt(s, x) ==
  IF s = <<>> THEN <<x>>
  ELSE IF x < Head(s) THEN <<x>> \o s
  ELSE <<Head(s)>> \o insertInt(Tail(s), x)

RECURSIVE sortInts(_)
sortInts(s) == IF s = <<>> THEN <<>> ELSE insertInt(sortInts(Tail(s)), Head(s))

\* quantile(samples, q) with q = q100/100; Duration(float64) truncates.
quantile(samples, q100) ==
  IF Len(samples) = 0 THEN 0
  ELSE LET cp == sortInts(samples)
           n == Len(cp)
           idx == (q100 * (n - 1)) \div 100
           frac100 == (q100 * (n - 1)) % 100
       IN IF q100 <= 0 THEN cp[1]
          ELSE IF q100 >= 100 THEN cp[n]
          ELSE IF idx >= n - 1 THEN cp[n]
          ELSE (cp[idx + 1] * 100 + (cp[idx + 2] - cp[idx + 1]) * frac100) \div 100

RECURSIVE sumSeq(_)
sumSeq(s) == IF s = <<>> THEN 0 ELSE Head(s) + sumSeq(Tail(s))

isqrt(v) == CHOOSE r \in 0..v : r * r <= v /\ (r + 1) * (r + 1) > v

\* population standard deviation, truncated: floor(sqrt(n*sum(s^2) - sum(s)^2) / n)
stddev(samples) ==
  IF Len(samples) = 0 THEN 0
  ELSE LET n == Len(samples)
           sq == [k \in 1..n |-> samples[k] * samples[k]]
       IN isqrt(n * sumSeq(sq) - sumSeq(samples) * sumSeq(samples)) \div n

NoStat ==
  [IP |-> 0, Successes |-> 0, Failures |-> 0, Samples |-> <<>>, P50 |-> 0, P95 |-> 0,
   JitterStd |-> 0, LastError |-> "", ResolvedVia |-> ""]

newStat(ip) == [NoStat EXCEPT !.IP = ip]

\* (variant: no sentinel for a candidate without a sample)
finishStatNoSentinel(st, timeout) ==
  IF Len(st.Samples) > 0
  THEN [st EXCEPT !.P50 = quantile(st.Samples, 50), !.P95 = quantile(st.Samples, 95),
                  !.JitterStd = stddev(st.Samples)]
  ELSE st

\* the tail of ProbeCandidate, after the attempt loop
finishStat(st, timeout) ==
  IF Len(st.Samples) > 0
  THEN [st EXCEPT !.P50 = quantile(st.Samples, 50), !.P95 = quantile(st.Samples, 95),
                  !.JitterStd = stddev(st.Samples)]
  ELSE [st EXCEPT !.P50 = timeout, !.P95 = timeout, !.JitterStd = timeout]

Attempts(c) == c.Successes + c.Failures

\* SuccessRate() compared by cross-multiplication; 0 when no attempt was made.
rateLess(a, b) ==
  IF Attempts(a) = 0 THEN Attempts(b) > 0 /\ b.Successes > 0
  ELSE IF Attempts(b) = 0 THEN FALSE
  ELSE a.Successes * Attempts(b) < b.Successes * Attempts(a)

\* (variant: without the address as the last key)
betterNoTieBreak(a, b) ==
  IF rateLess(a, b) \/ rateLess(b, a) THEN rateLess(b, a)
  ELSE IF a.P95 # b.P95 THEN a.P95 < b.P95
  ELSE IF a.P50 # b.P50 THEN a.P50 < b.P50
  ELSE IF a.JitterStd # b.JitterStd THEN a.JitterStd < b.JitterStd
  ELSE FALSE

\* (variant: p50 compared before p95)
betterP50First(a, b) ==
  IF rateLess(a, b) \/ rateLess(b, a) THEN rateLess(b, a)
  ELSE IF a.P50 # b.P50 THEN a.P50 < b.P50
  ELSE IF a.P95 # b.P95 THEN a.P95 < b.P95
  ELSE IF a.JitterStd # b.JitterStd THEN a.JitterStd < b.JitterStd
  ELSE Less(a.IP, b.IP)

better(a, b) ==
  IF rateLess(a, b) \/ rateLess(b, a) THEN rateLess(b, a)
  ELSE IF a.P95 # b.P95 THEN a.P95 < b.P95
  ELSE IF a.P50 # b.P50 THEN a.P50 < b.P50
  ELSE IF a.JitterStd # b.JitterStd THEN a.JitterStd < b.JitterStd
  ELSE Less(a.IP, b.IP)

RECURSIVE insertStat(_, _)
insertStat(s, x) ==
  IF s = <<>> THEN <<x>>
  ELSE IF better(x, Head(s)) THEN <<x>> \o s
  ELSE <<Head(s)>> \o insertStat(Tail(s), x)

RECURSIVE sortStats(_)
sortStats(s) == IF s = <<>> THEN <<>> ELSE insertStat(sortStats(Tail(s)), Head(s))

\* ------------------------------------------------------------------ state
VARIABLES
  cfg,          \* engine.Config of the current call of Run
  domains,      \* the submitted domain list
  ctxDone,      \* the run scope (ctx) has been cancelled
  runPc,        \* position of Run: "idle", "called", "dispatch", "wait", "returned"
  runErr,       \* value Run returns (ErrNil for nil), "pending" before it is known
  idx,          \* index of the next domain of the dispatch loop
  chClosed,     \* close(workCh) has been executed
  done,         \* the atomic completion counter
  wk,           \* the worker goroutines: position and locals of each
  emitted,      \* per submitted position, the OnResult calls made for it
  progressLog,  \* the OnProgress calls, in call order
  logCalls,     \* number of OnLog calls
  took,         \* per submitted position, the workers that received it
  caller,       \* "api": callbacks of an arbitrary caller; "ui": closures of startRun
  uiCh,         \* the buffered channel uiCh
  dropped,      \* kinds of messages of the current run that a full uiCh made a sender drop
  ui,           \* state of ui.loop: running, rows, domainIdx, logLines, done, total, cancel
  mrg,          \* a render/merge computation of package hostsfile: its arguments and results
  files,        \* the file system: per path, whether the file exists, its content and mode
  now,          \* the clock, in the seconds of the backup name's timestamp
  hcall,        \* the call of WriteWithBackup or RestoreBackup in progress: position and locals
  fn            \* a call of one function on its own: position, arguments and results

engineVars == <<cfg, domains, ctxDone, runPc, runErr, idx, chClosed, done, wk>>
obsVars == <<emitted, progressLog, logCalls, took>>
uiVars == <<caller, uiCh, dropped, ui>>
hostsVars == <<mrg, files, now, hcall>>
vars == <<cfg, domains, ctxDone, runPc, runErr, idx, chClosed, done, wk,
          emitted, progressLog, logCalls, took, caller, uiCh, dropped, ui,
          mrg, files, now, hcall, fn>>

NoRes == [Domain |-> 0, Best |-> NoStat, Candidates |-> <<>>, Err |-> ErrNil]

\* a worker with no domain in hand. dom is the position of the domain in hand,
\* ctxAtTake whether the scope was already cancelled when it was received,
\* cancelAt where the worker stood when the scope was cancelled, lookups the
\* number of lookupWithResolver calls made for the domain; cands, k, stats, st,
\* i, res, d are the locals of RunOneDomain, ProbeCandidate and the worker.
worker(pc) ==
  [pc |-> pc, dom |-> 0, ctxAtTake |-> FALSE, cancelAt |-> "none", lookups |-> 0,
   cands |-> <<>>, k |-> 0, stats |-> <<>>, st |-> NoStat, i |-> 0, res |-> NoRes, d |-> 0]

\* positions of a worker between taking a domain and emitting its result
InFlightPcs == {"resolve", "loop", "probe", "log", "emit"}

NumEmitted == sumSeq([p \in 1..Len(emitted) |-> Len(emitted[p])])

\* ------------------------------------------------------------ inputs
Ports == {0, 1, MaxPort, MaxPort + 1}
Timeouts == 0..MaxTimeout
AttemptCounts == 0..MaxAttempts
Concurrencies == 0..MaxWorkers
ServerLists == {<<>>, <<DNS1>>}

Configs ==
  [DNSServers : ServerLists, Port : Ports, Timeout : Timeouts, Attempts : AttemptCounts,
   Concurrency : Concurrencies, IPv4 : BOOLEAN, IPv6 : BOOLEAN]

\* the domain lists: distinct names, as ParseDomains produces them
DomainLists == {[p \in 1..n |-> p] : n \in 0..MaxDomains}

\* answers of one lookup: an error or the addresses, in any order
RECURSIVE distinctSeqs(_, _)
distinctSeqs(S, n) ==
  IF n = 0 THEN {<<>>}
  ELSE LET shorter == distinctSeqs(S, n - 1)
       IN shorter \cup {Append(s, x) : s \in {t \in shorter : Len(t) = n - 1},
                                       x \in S}

LookupAnswers ==
  {LookupErr} \cup {LookupOk(s) : s \in {t \in distinctSeqs(Addrs, MaxAddr) :
                                            \A a, b \in 1..Len(t) : a # b => t[a] # t[b]}}

\* ------------------------------------------------------------ callbacks
\* the non-blocking send of the closures of startRun: select { case uiCh <- m: default: }
TrySend(m) ==
  IF Len(uiCh) < UiChCap
  THEN uiCh' = Append(uiCh, m) /\ UNCHANGED dropped
  ELSE uiCh' = uiCh /\ dropped' = dropped \cup {m.type}

msg(type, body) == [type |-> type, body |-> body]

\* The callbacks of an "api" caller record their calls; those of startRun send.
OnProgress(d, total) ==
  IF caller = "ui"
  THEN TrySend(msg("progress", <<d, total>>)) /\ UNCHANGED progressLog
  ELSE /\ progressLog' = Append(progressLog,
                                [Done |-> d, Total |-> total, emitted |-> NumEmitted])
       /\ UNCHANGED <<uiCh, dropped>>

OnResult(w, res) ==
  IF caller = "ui"
  THEN TrySend(msg("result", res)) /\ UNCHANGED emitted
  ELSE /\ emitted' = [emitted EXCEPT ![wk[w].dom] =
                        Append(@, [res |-> res, cands |-> wk[w].cands,
                                   ctxAtTake |-> wk[w].ctxAtTake,
                                   cancelAt |-> wk[w].cancelAt])]
       /\ UNCHANGED <<uiCh, dropped>>

OnLog(line) ==
  IF caller = "ui"
  THEN TrySend(msg("log", line)) /\ UNCHANGED logCalls
  ELSE logCalls' = logCalls + 1 /\ UNCHANGED <<uiCh, dropped>>

\* ------------------------------------------------------------ engine.Run
\* (variant: a worker is started for every slot, whatever the concurrency)
spawnedAll(w, c) == TRUE

\* for i := 0; i < cfg.Concurrency; i++ { wg.Add(1); go worker() }
spawned(w, c) == w <= c

\* Run up to the dispatch loop: validation, OnProgress(0, total), the workers.
RunStart ==
  /\ runPc = "called"
  /\ IF validate(cfg) # ErrNil
     THEN /\ runPc' = "returned" /\ runErr' = validate(cfg)
          /\ UNCHANGED <<wk, progressLog, uiCh, dropped>>
     ELSE IF Len(domains) = 0
     THEN /\ runPc' = "returned" /\ runErr' = "empty domain list"
          /\ UNCHANGED <<wk, progressLog, uiCh, dropped>>
     ELSE /\ OnProgress(0, Len(domains))
          /\ wk' = [w \in Workers |-> IF spawned(w, cfg.Concurrency) THEN worker("recv") ELSE wk[w]]
          /\ runPc' = "dispatch" /\ UNCHANGED runErr
  /\ UNCHANGED <<fn, hostsVars, cfg, domains, ctxDone, idx, chClosed, done, emitted, logCalls, took, caller, ui>>

\* (variant: the loop does not advance, the same domain is sent again)
NextIndexStuck(i) == i

\* for _, d := range domains: the next iteration
NextIndex(i) == i + 1

\* case workCh <- d: the unbuffered hand-over of domains[idx] to a receiving worker
RunDispatch(w) ==
  /\ runPc = "dispatch" /\ idx <= Len(domains)
  /\ wk[w].pc = "recv"
  /\ wk' = [wk EXCEPT ![w] = [worker("resolve") EXCEPT !.dom = idx, !.ctxAtTake = ctxDone]]
  /\ took' = IF caller = "api" THEN [took EXCEPT ![idx] = Append(@, w)] ELSE took
  /\ idx' = NextIndex(idx)
  /\ UNCHANGED <<fn, hostsVars, cfg, domains, ctxDone, runPc, runErr, chClosed, done,
                 emitted, progressLog, logCalls, caller, uiCh, dropped, ui>>

\* (variant: the cancellation branch does not close workCh)
RunCancelledNoClose ==
  /\ runPc = "dispatch" /\ idx <= Len(domains)
  /\ ctxDone
  /\ runPc' = "wait" /\ runErr' = ErrCanceled
  /\ UNCHANGED <<fn, hostsVars, cfg, domains, ctxDone, idx, chClosed, done, wk, obsVars, uiVars>>

\* case <-ctx.Done(): close(workCh), then wg.Wait() and return ctx.Err()
RunCancelled ==
  /\ runPc = "dispatch" /\ idx <= Len(domains)
  /\ ctxDone
  /\ chClosed' = TRUE /\ runPc' = "wait" /\ runErr' = ErrCanceled
  /\ UNCHANGED <<fn, hostsVars, cfg, domains, ctxDone, idx, done, wk, obsVars, uiVars>>

\* after the loop: close(workCh), then wg.Wait() and return nil
RunClose ==
  /\ runPc = "dispatch" /\ idx > Len(domains)
  /\ chClosed' = TRUE /\ runPc' = "wait" /\ runErr' = ErrNil
  /\ UNCHANGED <<fn, hostsVars, cfg, domains, ctxDone, idx, done, wk, obsVars, uiVars>>

\* (variant: Run returns without waiting for the workers)
AllWorkersExitedNoWait == TRUE

\* wg.Wait() returns when every worker has called wg.Done()
AllWorkersExited == \A w \in Workers : wk[w].pc \in {"off", "exited"}

RunReturn ==
  /\ runPc = "wait"
  /\ AllWorkersExited
  /\ runPc' = "returned"
  /\ UNCHANGED <<fn, hostsVars, cfg, domains, ctxDone, runErr, idx, chClosed, done, wk, obsVars, caller, ui>>
  /\ UNCHANGED <<uiCh, dropped>>

\* ------------------------------------------------------------ the workers
\* for domain := range workCh ends when the channel is closed; defer wg.Done()
WorkerExit(w) ==
  /\ wk[w].pc = "recv" /\ chClosed
  /\ wk' = [wk EXCEPT ![w] = worker("exited")]
  /\ UNCHANGED <<fn, hostsVars, cfg, domains, ctxDone, runPc, runErr, idx, chClosed, done, obsVars, uiVars>>

\* (variant: a single candidate counts as none)
noCandidatesOrOne(cands) == Len(cands) <= 1

\* if len(candidates) == 0
noCandidates(cands) == Len(cands) = 0

\* (variant: the error is not stored in the result)
errResultLost(dom, err) == [NoRes EXCEPT !.Domain = dom]

\* res := model.DomainResult{Domain: domain}; res.Err = err; return res
errResult(dom, err) == [NoRes EXCEPT !.Domain = dom, !.Err = err]

\* RunOneDomain up to the candidate loop. A lookup on a cancelled scope fails;
\* otherwise each source answers an error or some addresses. The lookups only
\* read ctx and write locals, so they are taken as one step.
WorkerResolve(w) ==
  /\ wk[w].pc = "resolve"
  /\ \E sysAns \in LookupAnswers, answers \in [1..Len(cfg.DNSServers) -> LookupAnswers] :
       /\ ctxDone => sysAns = LookupErr /\ \A k \in DOMAIN answers : answers[k] = LookupErr
       /\ LET cands == ResolveCandidates(sysAns, cfg.DNSServers, answers, cfg.IPv4, cfg.IPv6)
              r == wk[w]
          IN wk' = [wk EXCEPT ![w] =
                      IF noCandidates(cands)
                      THEN [r EXCEPT !.pc = "emit", !.lookups = 1 + Len(cfg.DNSServers),
                                     !.cands = cands,
                                     !.res = errResult(domains[r.dom], ErrNoCandidate)]
                      ELSE [r EXCEPT !.pc = "loop", !.lookups = 1 + Len(cfg.DNSServers),
                                     !.cands = cands, !.k = 1]]
  /\ UNCHANGED <<fn, hostsVars, cfg, domains, ctxDone, runPc, runErr, idx, chClosed, done, obsVars, uiVars>>

\* head of the candidate loop of RunOneDomain: if ctx.Err() != nil { ... return }
WorkerLoop(w) ==
  /\ wk[w].pc = "loop"
  /\ LET r == wk[w] IN
     wk' = [wk EXCEPT ![w] =
              IF ctxDone
              THEN [r EXCEPT !.pc = "emit", !.res = errResult(domains[r.dom], ErrCanceled)]
              ELSE [r EXCEPT !.pc = "probe", !.st = newStat(r.cands[r.k].IP), !.i = 0]]
  /\ UNCHANGED <<fn, hostsVars, cfg, domains, ctxDone, runPc, runErr, idx, chClosed, done, obsVars, uiVars>>

\* ProbeCandidate has left its loop: derived fields, then RunOneDomain labels
\* the statistic and appends it.
probed(r, st) ==
  [r EXCEPT !.pc = "log",
            !.st = NoStat, !.i = 0,
            !.stats = Append(r.stats, [finishStat(st, cfg.Timeout) EXCEPT
                                   !.ResolvedVia = r.cands[r.k].ResolvedVia])]

\* one iteration of the attempt loop of ProbeCandidate: the ctx check, then tcpPing
WorkerTrial(w) ==
  /\ wk[w].pc = "probe"
  /\ LET r == wk[w] IN
     IF ctxDone
     THEN wk' = [wk EXCEPT ![w] = probed(r, [r.st EXCEPT !.LastError = ErrCanceled])]
     ELSE \E ok \in BOOLEAN, d \in 1..cfg.Timeout :
            LET st == IF ok
                      THEN [r.st EXCEPT !.Successes = @ + 1, !.Samples = Append(@, d)]
                      ELSE [r.st EXCEPT !.Failures = @ + 1, !.LastError = ErrDial]
            IN /\ ~ok => d = 1
               /\ wk' = [wk EXCEPT ![w] =
                           IF r.i + 1 < cfg.Attempts
                           THEN [r EXCEPT !.st = st, !.i = r.i + 1]
                           ELSE probed(r, st)]
  /\ UNCHANGED <<fn, hostsVars, cfg, domains, ctxDone, runPc, runErr, idx, chClosed, done, obsVars, uiVars>>

\* (variant: the statistics are left in the order in which they were probed)
rankedResultUnsorted(dom, stats) ==
  [Domain |-> dom, Best |-> stats[1], Candidates |-> stats, Err |-> ErrNil]

\* the result of RunOneDomain after the last candidate: sort.Slice by better
rankedResult(dom, stats) ==
  LET ranked == sortStats(stats)
  IN [Domain |-> dom, Best |-> ranked[1], Candidates |-> ranked, Err |-> ErrNil]

\* logf(...) after each probed candidate, then the next candidate or the result
WorkerLog(w) ==
  /\ wk[w].pc = "log"
  /\ OnLog(<<domains[wk[w].dom], wk[w].cands[wk[w].k].IP>>)
  /\ LET r == wk[w] IN
     wk' = [wk EXCEPT ![w] =
              IF r.k < Len(r.cands)
              THEN [r EXCEPT !.pc = "loop", !.k = r.k + 1]
              ELSE [r EXCEPT !.pc = "emit", !.res = rankedResult(domains[r.dom], r.stats)]]
  /\ UNCHANGED <<fn, hostsVars, cfg, domains, ctxDone, runPc, runErr, idx, chClosed, done,
                 emitted, progressLog, took, caller, ui>>

\* cb.OnResult(res); the locals of RunOneDomain are dead from here on
WorkerEmit(w) ==
  /\ wk[w].pc = "emit"
  /\ OnResult(w, wk[w].res)
  /\ wk' = [wk EXCEPT ![w] = [worker("add") EXCEPT !.dom = wk[w].dom,
                                                   !.ctxAtTake = wk[w].ctxAtTake,
                                                   !.cancelAt = wk[w].cancelAt,
                                                   !.lookups = wk[w].lookups]]
  /\ UNCHANGED <<fn, hostsVars, cfg, domains, ctxDone, runPc, runErr, idx, chClosed, done,
                 progressLog, logCalls, took, caller, ui>>

\* d := int(atomic.AddInt64(&done, 1))
WorkerAdd(w) ==
  /\ wk[w].pc = "add"
  /\ done' = done + 1
  /\ wk' = [wk EXCEPT ![w].pc = "progress", ![w].d = done + 1]
  /\ UNCHANGED <<fn, hostsVars, cfg, domains, ctxDone, runPc, runErr, idx, chClosed, obsVars, uiVars>>

\* cb.OnProgress(d, total), then back to the range over workCh
WorkerProgress(w) ==
  /\ wk[w].pc = "progress"
  /\ OnProgress(wk[w].d, Len(domains))
  /\ wk' = [wk EXCEPT ![w] = worker("recv")]
  /\ UNCHANGED <<fn, hostsVars, cfg, domains, ctxDone, runPc, runErr, idx, chClosed, done,
                 emitted, logCalls, took, caller, ui>>

\* ------------------------------------------------------------ cancellation
\* cancel() of the run scope; cancelAt notes where each in-flight worker stood.
cancelCtx ==
  /\ ctxDone' = TRUE
  /\ wk' = [w \in Workers |->
              IF wk[w].pc \in InFlightPcs /\ wk[w].cancelAt = "none"
              THEN [wk[w] EXCEPT !.cancelAt = wk[w].pc]
              ELSE wk[w]]

Cancel ==
  /\ caller = "api"
  /\ ~ctxDone /\ runPc # "returned"
  /\ cancelCtx
  /\ UNCHANGED <<fn, hostsVars, cfg, domains, runPc, runErr, idx, chClosed, done, obsVars, uiVars>>

\* ------------------------------------------------------------ ui.loop
\* rows is the table of results, domainIdx the map from a domain to its row,
\* logLines the number of lines of the log, cancel whether cancel != nil.
UiInit ==
  [running |-> FALSE, rows |-> <<>>, domainIdx |-> <<>>, logLines |-> 0,
   done |-> 0, total |-> 0, cancel |-> FALSE]

\* appendLog keeps the last LogCap lines
appendLog(u) == [u EXCEPT !.logLines = IF @ + 1 > LogCap THEN LogCap ELSE @ + 1]

newRow(dom) ==
  [Domain |-> dom, BestIP |-> <<>>, Via |-> "", Rate |-> <<0, 0>>, P95 |-> 0, Jitter |-> 0,
   Message |-> "", Apply |-> FALSE]

applyResult(u, res) ==
  LET known == res.Domain \in DOMAIN u.domainIdx
      idxOf == IF known THEN u.domainIdx
               ELSE [d \in DOMAIN u.domainIdx \cup {res.Domain} |->
                       IF d = res.Domain THEN Len(u.rows) + 1 ELSE u.domainIdx[d]]
      rows0 == IF known THEN u.rows ELSE Append(u.rows, newRow(res.Domain))
      i == idxOf[res.Domain]
      r == IF res.Err # ErrNil
           THEN [rows0[i] EXCEPT !.Message = res.Err, !.BestIP = <<>>, !.Via = "",
                                 !.Rate = <<0, 0>>, !.P95 = 0, !.Jitter = 0, !.Apply = FALSE]
           ELSE [rows0[i] EXCEPT !.Message = "", !.BestIP = String(res.Best.IP),
                                 !.Via = res.Best.ResolvedVia,
                                 !.Rate = <<res.Best.Successes, Attempts(res.Best)>>,
                                 !.P95 = res.Best.P95, !.Jitter = res.Best.JitterStd,
                                 !.Apply = TRUE]
  IN [u EXCEPT !.domainIdx = idxOf, !.rows = [rows0 EXCEPT ![i] = r]]

\* what the start button can submit: ParseDomains of the editor (distinct
\* domains) and the numbers typed into the editors
\* (the DNS editor emptied, the IPv6 box left unchecked as it starts: ipv6.Value = false)
UiConfigs == {c \in Configs : c.DNSServers = <<>> /\ c.Port \in {0, 1} /\ ~c.IPv6}

\* (variant: the start button acts while a run is active too)
canStartAlways(u) == TRUE

\* the handler of the start button: if !running { startRun() }
canStart(u) == ~u.running

\* startRun when the domain editor holds no domain or a number does not parse
UIStartRejected ==
  /\ caller = "ui" /\ ~ui.running
  /\ ui.logLines < MaxRejects
  /\ ui' = appendLog(ui)
  /\ UNCHANGED <<fn, hostsVars, engineVars, obsVars, caller, uiCh, dropped>>

\* startRun: the start button while !running, the editors holding one of configs
startRun(configs) ==
  /\ caller = "ui" /\ canStart(ui)
  /\ \E c \in configs, ds \in DomainLists \ {<<>>} :
       /\ cfg' = c /\ domains' = ds
       /\ emitted' = [p \in 1..Len(ds) |-> <<>>]
       /\ took' = [p \in 1..Len(ds) |-> <<>>]
  /\ ui' = [ui EXCEPT !.rows = <<>>, !.domainIdx = <<>>, !.logLines = 0,
                      !.done = 0, !.total = 0, !.cancel = TRUE, !.running = TRUE]
  /\ ctxDone' = FALSE /\ runPc' = "called" /\ runErr' = "pending"
  /\ idx' = 1 /\ chClosed' = FALSE /\ done' = 0
  /\ wk' = [w \in Workers |-> worker("off")]
  /\ progressLog' = <<>> /\ logCalls' = 0
  /\ dropped' = {}
  /\ UNCHANGED <<fn, hostsVars, caller, uiCh>>

UIStartRun == startRun(UiConfigs)

\* the start button with the concurrency editor holding 0 or 1
UIStartSerial == startRun({c \in UiConfigs : c.Concurrency <= 1})

\* the goroutine of startRun after engine.Run has returned: msgDone{Err: err}
GoroutineDone ==
  /\ caller = "ui" /\ runPc = "returned"
  /\ TrySend(msg("done", runErr))
  /\ runPc' = "reported"
  /\ UNCHANGED <<fn, hostsVars, cfg, domains, ctxDone, runErr, idx, chClosed, done, wk, obsVars, caller, ui>>

\* stopRun: the stop button, enabled while running
UIStopRun ==
  /\ caller = "ui" /\ ui.running /\ ui.cancel
  /\ ~ctxDone
  /\ cancelCtx
  /\ UNCHANGED <<fn, hostsVars, cfg, domains, runPc, runErr, idx, chClosed, done, obsVars, uiVars>>

\* one receive of the drain loop of a FrameEvent
UIRecv ==
  /\ caller = "ui" /\ Len(uiCh) > 0
  /\ uiCh' = Tail(uiCh)
  /\ LET m == Head(uiCh) IN
     ui' = CASE m.type = "log" -> appendLog(ui)
             [] m.type = "result" -> applyResult(ui, m.body)
             [] m.type = "progress" -> [ui EXCEPT !.done = m.body[1], !.total = m.body[2]]
             [] m.type = "done" -> appendLog([ui EXCEPT !.running = FALSE])
  /\ UNCHANGED <<fn, hostsVars, engineVars, obsVars, caller, dropped>>

\* ---- the results page and the preview page
\* (variant: every checked row is taken, whatever its address and message)
buildMappingsChecked(rows) ==
  LET sel == SelectSeq(rows, LAMBDA r : r.Apply)
  IN [k \in 1..Len(sel) |-> [IP |-> sel[k].BestIP, Domain |-> sel[k].Domain]]

\* buildMappings: a row is skipped if it is not checked, has no domain, no
\* best address, or a message ("" is 0 for a domain, <<>> for an address)
buildMappings(rows) ==
  LET sel == SelectSeq(rows, LAMBDA r : ~(~r.Apply \/ r.Domain = 0 \/ r.BestIP = <<>>
                                          \/ r.Message # ""))
  IN [k \in 1..Len(sel) |-> [IP |-> sel[k].BestIP, Domain |-> sel[k].Domain]]

\* the handler of the three selection buttons
selectRows(rows, mode) ==
  [i \in 1..Len(rows) |->
     LET good == rows[i].Message = "" /\ rows[i].BestIP # <<>> IN
     CASE mode = "all" -> IF good THEN [rows[i] EXCEPT !.Apply = TRUE] ELSE rows[i]
       [] mode = "none" -> [rows[i] EXCEPT !.Apply = FALSE]
       [] mode = "ok" -> [rows[i] EXCEPT !.Apply = good]]

\* the check box of row i (material.CheckBox on rows[i].Apply), clickable on
\* every row
UIToggle(i) ==
  /\ caller = "ui" /\ i \in 1..Len(ui.rows)
  /\ ui' = [ui EXCEPT !.rows[i].Apply = ~@]
  /\ UNCHANGED <<fn, hostsVars, engineVars, obsVars, caller, uiCh, dropped>>

UISelect(mode) ==
  /\ caller = "ui"
  /\ ui' = [ui EXCEPT !.rows = selectRows(ui.rows, mode)]
  /\ UNCHANGED <<fn, hostsVars, engineVars, obsVars, caller, uiCh, dropped>>

\* the clicks on the preview and write buttons so far
clicks(f) == IF f.pc = "idle" THEN 0 ELSE f.n

\* what a click on the preview or write button passed on: passed is whether
\* buildMappings was called, ms its result
clicked(op, passed, ms) ==
  [pc |-> "clicked", n |-> clicks(fn) + 1, op |-> op, passed |-> passed, ms |-> ms]

\* buildPreview: when the hosts file cannot be read, a log line and nothing
\* else; otherwise BuildManagedBlock(buildMappings()), merged into the text
\* read (the computation of MergeRender and MergeApply), and a log line
UIPreview ==
  /\ caller = "ui" /\ clicks(fn) < MaxClicks
  /\ \E readOk \in BOOLEAN :
       fn' = clicked("preview", readOk, IF readOk THEN buildMappings(ui.rows) ELSE <<>>)
  /\ ui' = appendLog(ui)
  /\ UNCHANGED <<hostsVars, engineVars, obsVars, caller, uiCh, dropped>>

\* writeHosts: WriteWithBackup(p, buildMappings()) (the call of WriteCall and
\* the steps after it), then a log line for its error or its backup
UIWrite ==
  /\ caller = "ui" /\ clicks(fn) < MaxClicks
  /\ fn' = clicked("write", TRUE, buildMappings(ui.rows))
  /\ ui' = appendLog(ui)
  /\ UNCHANGED <<hostsVars, engineVars, obsVars, caller, uiCh, dropped>>

\* ------------------------------------------------------ package hostsfile
\* A text is a sequence of tokens: a token is one character (SP, CR, LF) or a
\* run of characters without whitespace; the text of a marker is one token.
SP == " "
CR == "\r"
LF == "\n"
beginMarker == "# ip-opt-gui begin"
endMarker == "# ip-opt-gui end"

\* strings.TrimSpace: leading and trailing white space removed
IsSpace(c) == c \in {SP, CR, LF}

RECURSIVE TrimLeft(_)
TrimLeft(s) == IF s # <<>> /\ IsSpace(Head(s)) THEN TrimLeft(Tail(s)) ELSE s

RECURSIVE TrimRightSpace(_)
TrimRightSpace(s) ==
  IF s # <<>> /\ IsSpace(s[Len(s)]) THEN TrimRightSpace(SubSeq(s, 1, Len(s) - 1)) ELSE s

TrimSpace(s) == TrimRightSpace(TrimLeft(s))

\* strings.ReplaceAll(s, "\r\n", "\n")
RECURSIVE ReplaceCRLF(_)
ReplaceCRLF(s) ==
  IF s = <<>> THEN <<>>
  ELSE IF Len(s) >= 2 /\ s[1] = CR /\ s[2] = LF
       THEN <<LF>> \o ReplaceCRLF(SubSeq(s, 3, Len(s)))
       ELSE <<s[1]>> \o ReplaceCRLF(Tail(s))

\* strings.ReplaceAll(s, "\r", "\n")
ReplaceCR(s) == [i \in 1..Len(s) |-> IF s[i] = CR THEN LF ELSE s[i]]

normalizeNewlines(s) == ReplaceCR(ReplaceCRLF(s))

\* strings.Split(s, "\n"): the pieces between the separators, one piece for ""
RECURSIVE Split(_)
Split(s) ==
  IF \A i \in 1..Len(s) : s[i] # LF THEN <<s>>
  ELSE LET i == CHOOSE j \in 1..Len(s) : s[j] = LF /\ \A k \in 1..(j - 1) : s[k] # LF
       IN <<SubSeq(s, 1, i - 1)>> \o Split(SubSeq(s, i + 1, Len(s)))

\* strings.Join(lines, "\n")
RECURSIVE Join(_)
Join(lines) ==
  IF lines = <<>> THEN <<>>
  ELSE IF Len(lines) = 1 THEN lines[1]
  ELSE lines[1] \o <<LF>> \o Join(Tail(lines))

\* strings.TrimRight(s, "\n")
RECURSIVE TrimRightLF(_)
TrimRightLF(s) ==
  IF s # <<>> /\ s[Len(s)] = LF THEN TrimRightLF(SubSeq(s, 1, Len(s) - 1)) ELSE s

\* the loop of BuildManagedBlock: one line per mapping with both fields non-blank
RECURSIVE blockBody(_)
blockBody(mappings) ==
  IF mappings = <<>> THEN <<>>
  ELSE LET ip == TrimSpace(Head(mappings).IP)
           d == TrimSpace(Head(mappings).Domain)
       IN (IF ip = <<>> \/ d = <<>> THEN <<>> ELSE ip \o <<SP>> \o d \o <<LF>>)
          \o blockBody(Tail(mappings))

BuildManagedBlock(mappings) ==
  <<beginMarker, LF>> \o blockBody(mappings) \o <<endMarker, LF>>

\* (variant: a begin marker that no end marker follows opens no region; the
\* marker line is dropped and the lines after it are kept)
RECURSIVE keptLinesDelimited(_, _)
keptLinesDelimited(lines, inManaged) ==
  IF lines = <<>> THEN <<>>
  ELSE LET lineTrim == TrimSpace(Head(lines))
           closed == \E k \in 2..Len(lines) : TrimSpace(lines[k]) = <<endMarker>>
       IN
       IF ~inManaged /\ lineTrim = <<beginMarker>>
       THEN keptLinesDelimited(Tail(lines), closed)
       ELSE IF inManaged THEN keptLinesDelimited(Tail(lines), lineTrim # <<endMarker>>)
       ELSE <<Head(lines)>> \o keptLinesDelimited(Tail(lines), FALSE)

\* the loop of ApplyManagedBlock over the lines: out, with inManaged as it stands
RECURSIVE keptLines(_, _)
keptLines(lines, inManaged) ==
  IF lines = <<>> THEN <<>>
  ELSE LET lineTrim == TrimSpace(Head(lines)) IN
       IF ~inManaged /\ lineTrim = <<beginMarker>> THEN keptLines(Tail(lines), TRUE)
       ELSE IF inManaged THEN keptLines(Tail(lines), lineTrim # <<endMarker>>)
       ELSE <<Head(lines)>> \o keptLines(Tail(lines), FALSE)

\* (variant: the old region is not removed, the block is appended)
ApplyManagedBlockAppendOnly(existing, block) ==
  LET next == TrimRightLF(normalizeNewlines(existing))
  IN (IF next # <<>> THEN next \o <<LF>> ELSE next) \o normalizeNewlines(block)

ApplyManagedBlock(existing, block) ==
  LET lines == Split(normalizeNewlines(existing))
      out == keptLines(lines, FALSE)
      next == TrimRightLF(Join(out))
  IN (IF next # <<>> THEN next \o <<LF>> ELSE next) \o normalizeNewlines(block)

\* ---- a render/merge computation: BuildManagedBlock, then ApplyManagedBlock
MergeIdle ==
  [pc |-> "idle", existing |-> <<>>, mappings |-> <<>>, block |-> <<>>,
   next |-> <<>>, again |-> <<>>]

\* the lines a hosts file is made of here: blank, two foreign lines, the
\* markers, an indented begin marker
HostLines == {<<>>, <<"127.0.0.1", SP, "localhost">>, <<"10.0.0.1", SP, "nas">>,
              <<beginMarker>>, <<endMarker>>, <<SP, beginMarker>>}

EOLs == {<<LF>>, <<CR, LF>>, <<CR>>}

RECURSIVE LineSeqs(_)
LineSeqs(n) ==
  IF n = 0 THEN {<<>>}
  ELSE LET shorter == LineSeqs(n - 1)
       IN shorter \cup {Append(ls, l) : ls \in {t \in shorter : Len(t) = n - 1},
                                        l \in HostLines}

\* the text with the given lines, each ended by eol, the last one only if final
RECURSIVE textOf(_, _, _)
textOf(ls, eol, final) ==
  IF ls = <<>> THEN <<>>
  ELSE IF Len(ls) = 1 THEN (IF final THEN ls[1] \o eol ELSE ls[1])
  ELSE ls[1] \o eol \o textOf(Tail(ls), eol, final)

ExistingTexts ==
  {textOf(ls, eol, final) : ls \in LineSeqs(MaxLines), eol \in EOLs, final \in BOOLEAN}

\* the contents the target file starts with: empty, the file of the test, a file
\* with CRLF line ends, a file that holds a managed region already
HostsTexts ==
  {<<>>,
   <<"127.0.0.1", SP, "localhost", LF>>,
   <<"127.0.0.1", SP, "localhost", CR, LF>>,
   <<"127.0.0.1", SP, "localhost", LF, beginMarker, LF, "1.1.1.1", SP, "a.com", LF,
     endMarker, LF>>}

\* Mapping values: as buildMappings makes them, padded, and with a blank address
Mappings ==
  {[IP |-> <<"1.2.3.4">>, Domain |-> <<"example.com">>],
   [IP |-> <<SP, "2.2.2.2">>, Domain |-> <<"b.com", SP>>],
   [IP |-> <<SP>>, Domain |-> <<"c.com">>]}

RECURSIVE MappingSeqs(_)
MappingSeqs(n) ==
  IF n = 0 THEN {<<>>}
  ELSE LET shorter == MappingSeqs(n - 1)
       IN shorter \cup {Append(ms, m) : ms \in {t \in shorter : Len(t) = n - 1},
                                        m \in Mappings}

\* The arguments of a merge. The block is appended as it is rendered, whatever
\* the existing text, so the longer mapping sequences are combined with the
\* texts of HostsTexts only.
MergeInputs ==
  {in \in [existing : ExistingTexts \cup HostsTexts, mappings : MappingSeqs(MaxMappings)] :
     Len(in.mappings) <= 1 \/ in.existing \in HostsTexts}

MergeRender ==
  /\ mrg.pc = "called"
  /\ mrg' = [mrg EXCEPT !.pc = "rendered", !.block = BuildManagedBlock(mrg.mappings)]
  /\ UNCHANGED <<fn, engineVars, obsVars, uiVars, files, now, hcall>>

MergeApply ==
  /\ mrg.pc = "rendered"
  /\ mrg' = [mrg EXCEPT !.pc = "merged", !.next = ApplyManagedBlock(mrg.existing, mrg.block)]
  /\ UNCHANGED <<fn, engineVars, obsVars, uiVars, files, now, hcall>>

\* the same mappings rendered and merged into the result once more
MergeAgain ==
  /\ mrg.pc = "merged"
  /\ mrg' = [mrg EXCEPT !.pc = "repeated",
                        !.again = ApplyManagedBlock(mrg.next, BuildManagedBlock(mrg.mappings))]
  /\ UNCHANGED <<fn, engineVars, obsVars, uiVars, files, now, hcall>>

\* ---- the files: the target, and the backups backupFile can name
\* 0644, the mode of a file that os.WriteFile creates
DefaultMode == 420
Modes == {DefaultMode, 384}

NoFile == [exists |-> FALSE, content |-> <<>>, mode |-> 0]

\* a path: the tokens of its name and, for a backup, the timestamp of its suffix
TargetPath == [name |-> <<"hosts">>, ts |-> -1]

\* fmt.Sprintf("%s.bak.%s", base, ts) in the directory of path; ts has the
\* resolution of the clock, one second
backupName(t) == [name |-> <<"hosts", ".bak.">>, ts |-> t]

Times == 0..MaxClock
BackupPaths == {backupName(t) : t \in Times}
Paths == {TargetPath} \cup BackupPaths
EmptyPath == [name |-> <<>>, ts |-> -1]
BlankPath == [name |-> <<SP>>, ts |-> -1]

ErrRead == "read error"
ErrWrite == "write error"
ErrEmptyBackup == "empty backup path"

\* os.WriteFile(path, data, perm): O_WRONLY|O_CREATE|O_TRUNC, write, close. The
\* outcomes: k = -1, the open fails and nothing changes; 0 <= k < Len(data),
\* the file is created or truncated and the write stops after k tokens;
\* k = Len(data), success. perm is used only when the file is created.
WriteOutcomes(data) == -1..Len(data)

WriteFile(fs, path, data, perm, k) ==
  IF k = -1 THEN fs
  ELSE [fs EXCEPT ![path] = [exists |-> TRUE,
                             content |-> SubSeq(data, 1, k),
                             mode |-> IF fs[path].exists THEN fs[path].mode ELSE perm]]

WriteOk(data, k) == k = Len(data)

InitialFiles ==
  {[p \in Paths |-> IF p = TargetPath THEN f ELSE NoFile] :
     f \in {NoFile} \cup [exists : {TRUE}, content : HostsTexts, mode : Modes]}

\* what WriteWithBackup is called with: no mapping or one (a blank address is
\* skipped by the rendering, which the merge computations cover)
WriteArgs == {ms \in MappingSeqs(1) : \A i \in 1..Len(ms) : TrimSpace(ms[i].IP) # <<>>}

\* what RestoreBackup is called with: no path, a blank one, the names of files
RestoreArgs == {EmptyPath, BlankPath} \cup Paths

NoRet == [backupPath |-> EmptyPath, newContent |-> <<>>]

\* no call yet: n counts the calls made, pre is the file system at the call,
\* last the outcome of the call before this one, readOk and backupOk how the
\* read and the write of the backup of this call went ("none" before them)
CallIdle(fs) ==
  [op |-> "none", pc |-> "idle", n |-> 0, mappings |-> <<>>, backupArg |-> EmptyPath,
   orig |-> <<>>, newContent |-> <<>>, backupPath |-> EmptyPath, b |-> <<>>, mode |-> 0,
   err |-> ErrNil, failedAt |-> "none", ret |-> NoRet, pre |-> fs,
   readOk |-> "none", backupOk |-> "none",
   last |-> [op |-> "none", err |-> ErrNil, ret |-> NoRet, orig |-> <<>>]]

newCall(op) ==
  [CallIdle(files) EXCEPT !.op = op, !.n = hcall.n + 1,
     !.last = [op |-> hcall.op, err |-> hcall.err, ret |-> hcall.ret,
               orig |-> hcall.pre[TargetPath].content]]

CanCall == hcall.pc \in {"idle", "returned"} /\ hcall.n < MaxCalls

failed(h, at, err) ==
  [h EXCEPT !.pc = "returned", !.err = err, !.failedAt = at, !.ret = NoRet]

YesNo(ok) == IF ok THEN "yes" ELSE "no"

\* time passes between two steps
Tick ==
  /\ now < MaxClock
  /\ now' = now + 1
  /\ UNCHANGED <<fn, engineVars, obsVars, uiVars, mrg, files, hcall>>

\* ---- WriteWithBackup(path, mappings)
\* (variant: the target is overwritten first, the backup is written after it)
nextStepTargetFirst(pc) ==
  CASE pc = "read" -> "stat" [] pc = "stat" -> "write" [] pc = "write" -> "backup"
    [] pc = "backup" -> "returned"

\* the order of the statements: Read, backupFile, os.Stat, os.WriteFile, return
nextStep(pc) ==
  CASE pc = "read" -> "backup" [] pc = "backup" -> "stat" [] pc = "stat" -> "write"
    [] pc = "write" -> "returned"

\* the call h moves on from the step at; the last step returns the results
proceed(h, at) ==
  IF nextStep(at) = "returned"
  THEN [h EXCEPT !.pc = "returned",
                 !.ret = [backupPath |-> h.backupPath, newContent |-> h.newContent]]
  ELSE [h EXCEPT !.pc = nextStep(at)]

WriteCall ==
  /\ CanCall
  /\ \E ms \in WriteArgs : hcall' = [newCall("write") EXCEPT !.pc = "read", !.mappings = ms]
  /\ UNCHANGED <<fn, engineVars, obsVars, uiVars, mrg, files, now>>

\* orig, err := Read(path), then the block and the merged content
WriteRead ==
  /\ hcall.op = "write" /\ hcall.pc = "read"
  /\ \E ok \in BOOLEAN :
       IF ok /\ files[TargetPath].exists
       THEN LET orig == files[TargetPath].content
                block == BuildManagedBlock(hcall.mappings)
            IN hcall' = proceed([hcall EXCEPT !.orig = orig, !.readOk = "yes",
                                   !.newContent = ApplyManagedBlock(orig, block)], "read")
       ELSE hcall' = failed([hcall EXCEPT !.readOk = "no"], "read", ErrRead)
  /\ UNCHANGED <<fn, engineVars, obsVars, uiVars, mrg, files, now>>

\* (variant: the backup holds the text with its line ends normalised)
backupBytesNormalized(content) == normalizeNewlines(content)

\* []byte(content), what backupFile writes
backupBytes(content) == content

\* (variant: the error of backupFile is not looked at)
backupFailedIgnored(ok) == FALSE

\* if err != nil after backupFile
backupFailed(ok) == ~ok

\* backupPath, err = backupFile(path, orig)
WriteBackup ==
  /\ hcall.op = "write" /\ hcall.pc = "backup"
  /\ LET backup == backupName(now)
         data == backupBytes(hcall.orig)
     IN \E k \in WriteOutcomes(data) :
          LET h == [hcall EXCEPT !.backupOk = YesNo(WriteOk(data, k))] IN
          /\ files' = WriteFile(files, backup, data, DefaultMode, k)
          /\ IF backupFailed(WriteOk(data, k))
             THEN hcall' = failed(h, "backup", ErrWrite)
             ELSE hcall' = proceed([h EXCEPT !.backupPath = backup], "backup")
  /\ UNCHANGED <<fn, engineVars, obsVars, uiVars, mrg, now>>

\* mode := 0644, replaced by the mode of the target when os.Stat succeeds
statMode(fs, path) == IF fs[path].exists THEN fs[path].mode ELSE DefaultMode

WriteStat ==
  /\ hcall.op = "write" /\ hcall.pc = "stat"
  /\ hcall' = proceed([hcall EXCEPT !.mode = statMode(files, TargetPath)], "stat")
  /\ UNCHANGED <<fn, engineVars, obsVars, uiVars, mrg, files, now>>

\* os.WriteFile(path, []byte(newContent), mode) and the return
WriteTarget ==
  /\ hcall.op = "write" /\ hcall.pc = "write"
  /\ \E k \in WriteOutcomes(hcall.newContent) :
       /\ files' = WriteFile(files, TargetPath, hcall.newContent, hcall.mode, k)
       /\ IF WriteOk(hcall.newContent, k)
          THEN hcall' = proceed(hcall, "write")
          ELSE hcall' = failed(hcall, "write", ErrWrite)
  /\ UNCHANGED <<fn, engineVars, obsVars, uiVars, mrg, now>>

\* ---- RestoreBackup(backupPath, hostsPath)
RestoreCall ==
  /\ CanCall
  /\ \E p \in RestoreArgs :
       hcall' = [newCall("restore") EXCEPT !.pc = "read", !.backupArg = p]
  /\ UNCHANGED <<fn, engineVars, obsVars, uiVars, mrg, files, now>>

\* (variant: the error of os.ReadFile is not looked at)
restoreReadFailedIgnored(ok) == FALSE

\* if err != nil after os.ReadFile(backupPath)
restoreReadFailed(ok) == ~ok

\* the test of the path, then b, err := os.ReadFile(backupPath)
RestoreRead ==
  /\ hcall.op = "restore" /\ hcall.pc = "read"
  /\ IF TrimSpace(hcall.backupArg.name) = <<>>
     THEN hcall' = failed(hcall, "path", ErrEmptyBackup)
     ELSE \E ok \in BOOLEAN :
            LET found == ok /\ hcall.backupArg \in Paths /\ files[hcall.backupArg].exists
                h == [hcall EXCEPT !.readOk = YesNo(found)]
            IN IF restoreReadFailed(found)
               THEN hcall' = failed(h, "read", ErrRead)
               ELSE hcall' = [h EXCEPT !.pc = "stat",
                                !.b = IF found THEN files[hcall.backupArg].content ELSE <<>>]
  /\ UNCHANGED <<fn, engineVars, obsVars, uiVars, mrg, files, now>>

RestoreStat ==
  /\ hcall.op = "restore" /\ hcall.pc = "stat"
  /\ hcall' = [hcall EXCEPT !.pc = "write", !.mode = statMode(files, TargetPath)]
  /\ UNCHANGED <<fn, engineVars, obsVars, uiVars, mrg, files, now>>

\* (variant: the text is written back with its line ends normalised)
restoreBytesNormalized(b) == normalizeNewlines(b)

\* the bytes RestoreBackup writes: b as read
restoreBytes(b) == b

\* return os.WriteFile(hostsPath, b, mode)
RestoreWrite ==
  /\ hcall.op = "restore" /\ hcall.pc = "write"
  /\ \E k \in WriteOutcomes(restoreBytes(hcall.b)) :
       /\ files' = WriteFile(files, TargetPath, restoreBytes(hcall.b), hcall.mode, k)
       /\ IF WriteOk(restoreBytes(hcall.b), k)
          THEN hcall' = [hcall EXCEPT !.pc = "returned"]
          ELSE hcall' = failed(hcall, "write", ErrWrite)
  /\ UNCHANGED <<fn, engineVars, obsVars, uiVars, mrg, now>>

\* ------------------------------------------------------------ ranking on its own
\* The three candidates of one domain are probed, compared pairwise by better
\* and sorted. An outcome is what the attempt loop of ProbeCandidate leaves for
\* one candidate: the latencies of the successful trials and the number of
\* failed ones. quantile and stddev do not depend on the order of the samples,
\* which are taken in ascending order here.
Latencies == {10, 20, 30}
RankTimeout == CHOOSE t \in Latencies : \A d \in Latencies : d <= t
RankIPs == <<1, 2, 3>>
RankSet == DOMAIN RankIPs

ProbeOutcomes ==
  {o \in [Samples : distinctSeqs(Latencies, MaxTrials), Failures : 0..MaxTrials] :
     /\ Len(o.Samples) + o.Failures <= MaxTrials
     /\ \A k \in 1..Len(o.Samples) - 1 : o.Samples[k] <= o.Samples[k + 1]}

\* the statistic at the end of the attempt loop
loopStat(ip, o) ==
  [newStat(ip) EXCEPT !.Successes = Len(o.Samples), !.Failures = o.Failures,
                      !.Samples = o.Samples,
                      !.LastError = IF o.Failures > 0 THEN ErrDial ELSE ""]

\* the tail of ProbeCandidate for each candidate
RankFinish ==
  /\ fn.pc = "probing"
  /\ fn' = [fn EXCEPT !.pc = "probed",
                      !.stats = [k \in RankSet |-> finishStat(fn.stats[k], fn.timeout)]]
  /\ UNCHANGED <<engineVars, obsVars, uiVars, hostsVars>>

\* better(a, b) for every pair of the candidates
RankCompare ==
  /\ fn.pc = "probed"
  /\ fn' = [fn EXCEPT !.pc = "compared",
                      !.cmp = [p \in RankSet \X RankSet |->
                                 better(fn.stats[p[1]], fn.stats[p[2]])]]
  /\ UNCHANGED <<engineVars, obsVars, uiVars, hostsVars>>

\* sort.Slice(stats, better)
RankSort ==
  /\ fn.pc = "compared"
  /\ fn' = [fn EXCEPT !.pc = "sorted", !.ranked = sortStats(fn.stats)]
  /\ UNCHANGED <<engineVars, obsVars, uiVars, hostsVars>>

\* ------------------------------------------------------------ ProbeCandidate on its own
\* One call of ProbeCandidate with a budget of attempts, while the scope may be
\* cancelled at any moment. started counts the trials begun (calls of tcpPing),
\* stoppedAt is the number of the trial in front of which the loop saw the
\* cancellation (0: never), allOk whether every trial so far has succeeded.
\* (variant: the trial not taken is counted as a failure)
cancelledStatCounted(st) == [st EXCEPT !.Failures = @ + 1, !.LastError = ErrCanceled]

\* st.LastError = ctx.Err().Error(); break
cancelledStat(st) == [st EXCEPT !.LastError = ErrCanceled]

\* the statistic after one return of tcpPing
trialStat(st, ok, d) ==
  IF ok THEN [st EXCEPT !.Successes = @ + 1, !.Samples = Append(@, d)]
  ELSE [st EXCEPT !.Failures = @ + 1, !.LastError = ErrDial]

\* the loop condition and the test of ctx.Err() in front of a trial
ProbeLoop ==
  /\ fn.pc = "loop"
  /\ fn' = IF fn.i >= fn.attempts THEN [fn EXCEPT !.pc = "tail"]
           ELSE IF fn.ctx
                THEN [fn EXCEPT !.pc = "tail", !.st = cancelledStat(fn.st),
                                !.stoppedAt = fn.i + 1]
                ELSE [fn EXCEPT !.pc = "dial", !.started = @ + 1]
  /\ UNCHANGED <<engineVars, obsVars, uiVars, hostsVars>>

\* tcpPing returns: a dial on a cancelled scope fails
ProbeDial ==
  /\ fn.pc = "dial"
  /\ \E ok \in BOOLEAN, d \in Latencies :
       /\ fn.ctx => ~ok
       /\ ~ok => d = RankTimeout
       /\ fn' = [fn EXCEPT !.pc = "loop", !.st = trialStat(fn.st, ok, d), !.i = @ + 1,
                           !.allOk = @ /\ ok]
  /\ UNCHANGED <<engineVars, obsVars, uiVars, hostsVars>>

\* the derived fields and the return
ProbeTail ==
  /\ fn.pc = "tail"
  /\ fn' = [fn EXCEPT !.pc = "returned", !.st = finishStat(fn.st, fn.timeout)]
  /\ UNCHANGED <<engineVars, obsVars, uiVars, hostsVars>>

\* the scope is cancelled while the call runs
ProbeCancel ==
  /\ fn.pc \in {"loop", "dial"} /\ ~fn.ctx
  /\ fn' = [fn EXCEPT !.ctx = TRUE]
  /\ UNCHANGED <<engineVars, obsVars, uiVars, hostsVars>>

\* ------------------------------------------------------------ ResolveCandidates on its own
\* One call of ResolveCandidates: sys is what LookupIPAddr of the system
\* resolver returns, answers[k] what the resolver of servers[k] returns.
ResolveAddrs == {-1, 0} \cup Addrs

NetIPs == {b \in [a : ResolveAddrs, len : {4, 16}] : Is6(b.a) => b.len = 16}

RawAnswers ==
  {LookupErr} \cup {LookupOk(s) : s \in {t \in distinctSeqs(NetIPs, MaxAnswer) :
                                            \A i, j \in 1..Len(t) : i # j => t[i] # t[j]}}

ResolveServerLists ==
  {<<>>, <<DNS1>>, <<PaddedDNS1>>, <<DNS1, DNS2>>, <<BlankServer, DNS1>>}

Families == {f \in [ipv4 : BOOLEAN, ipv6 : BOOLEAN] : f.ipv4 \/ f.ipv6}

reverse(s) == [k \in 1..Len(s) |-> s[Len(s) + 1 - k]]
reversed(raw) == [raw EXCEPT !.ips = reverse(raw.ips)]

\* the call: every lookup, the seen map and the sorted output
ResolveRun ==
  /\ fn.pc = "called"
  /\ fn' = [fn EXCEPT !.pc = "resolved",
                      !.out = ResolveCandidates(lookupWithResolver(fn.sys), fn.servers,
                                [k \in DOMAIN fn.answers |-> lookupWithResolver(fn.answers[k])],
                                fn.ipv4, fn.ipv6)]
  /\ UNCHANGED <<engineVars, obsVars, uiVars, hostsVars>>

\* the same call when every source returns its addresses in the reverse order
ResolveAgain ==
  /\ fn.pc = "resolved"
  /\ fn' = [fn EXCEPT !.pc = "again",
                      !.out2 = ResolveCandidates(lookupWithResolver(reversed(fn.sys)), fn.servers,
                                 [k \in DOMAIN fn.answers |->
                                    lookupWithResolver(reversed(fn.answers[k]))],
                                 fn.ipv4, fn.ipv6)]
  /\ UNCHANGED <<engineVars, obsVars, uiVars, hostsVars>>

\* ------------------------------------------------------ package domain
\* A text is a sequence of characters. A character is a string of length one,
\* or "a*n", a run of n letters a, where the length limits matter.
RunLen(c) ==
  CASE c = "a*61" -> 61
    [] c = "a*62" -> 62
    [] c = "a*63" -> 63
    [] c = "a*64" -> 64
    [] OTHER -> 1

\* len(s)
strLen(s) == sumSeq([k \in 1..Len(s) |-> RunLen(s[k])])

\* strings.ToLower
ToLowerChar(c) ==
  CASE c = "A" -> "a"
    [] c = "B" -> "b"
    [] OTHER -> c

ToLower(s) == [k \in 1..Len(s) |-> ToLowerChar(s[k])]

\* if i := strings.IndexByte(s, '#'); i >= 0 { s = s[:i] }
cutAtHash(s) ==
  IF \A i \in 1..Len(s) : s[i] # "#" THEN s
  ELSE LET i == CHOOSE j \in 1..Len(s) : s[j] = "#" /\ \A k \in 1..(j - 1) : s[k] # "#"
       IN SubSeq(s, 1, i - 1)

\* strings.TrimSuffix(s, ".")
TrimSuffixDot(s) ==
  IF s # <<>> /\ s[Len(s)] = "." THEN SubSeq(s, 1, Len(s) - 1) ELSE s

\* strings.Split(s, ".")
RECURSIVE SplitDot(_)
SplitDot(s) ==
  IF \A i \in 1..Len(s) : s[i] # "." THEN <<s>>
  ELSE LET i == CHOOSE j \in 1..Len(s) : s[j] = "." /\ \A k \in 1..(j - 1) : s[k] # "."
       IN <<SubSeq(s, 1, i - 1)>> \o SplitDot(SubSeq(s, i + 1, Len(s)))

\* the switch over the characters of a label: a-z, 0-9 and '-'
IsLabelChar(c) == c \in {"a", "b", "0", "-", "a*61", "a*62", "a*63", "a*64"}

isDomainName(s) ==
  IF strLen(s) = 0 \/ strLen(s) > MaxDomainLen THEN FALSE
  ELSE IF \E i \in 1..(Len(s) - 1) : s[i] = "." /\ s[i + 1] = "." THEN FALSE
  ELSE LET labels == SplitDot(s)
       IN \A l \in 1..Len(labels) :
            /\ labels[l] # <<>> /\ strLen(labels[l]) <= MaxLabelLen
            /\ \A i \in 1..Len(labels[l]) : IsLabelChar(labels[l][i])

\* NormalizeDomain returns the domain and ok
NotDomain == [d |-> <<>>, ok |-> FALSE]

NormalizeDomain(s) ==
  LET s1 == TrimSpace(s)
      s2 == IF \E i \in 1..Len(s1) : s1[i] = "#" THEN TrimSpace(cutAtHash(s1)) ELSE s1
      s3 == ToLower(TrimSpace(TrimSuffixDot(s2)))
  IN IF s1 = <<>> THEN NotDomain
     ELSE IF s3 = <<>> THEN NotDomain
     ELSE IF ~isDomainName(s3) THEN NotDomain
     ELSE [d |-> s3, ok |-> TRUE]

\* strings.ReplaceAll(line, ",", " ") and strings.ReplaceAll(line, ";", " ")
replaceSeparators(line) ==
  [i \in 1..Len(line) |-> IF line[i] \in {",", ";"} THEN SP ELSE line[i]]

\* strings.Fields: the pieces between runs of white space
RECURSIVE Fields(_)
Fields(s) ==
  LET t == TrimLeft(s) IN
  IF t = <<>> THEN <<>>
  ELSE IF \A i \in 1..Len(t) : ~IsSpace(t[i]) THEN <<t>>
  ELSE LET i == CHOOSE j \in 1..Len(t) : IsSpace(t[j]) /\ \A k \in 1..(j - 1) : ~IsSpace(t[k])
       IN <<SubSeq(t, 1, i - 1)>> \o Fields(SubSeq(t, i + 1, Len(t)))

\* (variant: a domain seen before is appended again)
addDomainAgain(out, token) ==
  LET r == NormalizeDomain(token)
  IN IF r.ok THEN Append(out, r.d) ELSE out

\* if d, ok := NormalizeDomain(token); ok && !seen[d] { seen[d] = true; out = append(out, d) }
\* seen holds exactly the domains of out
addDomain(out, token) ==
  LET r == NormalizeDomain(token)
  IN IF r.ok /\ \A k \in 1..Len(out) : out[k] # r.d THEN Append(out, r.d) ELSE out

RECURSIVE addTokens(_, _)
addTokens(out, tokens) ==
  IF tokens = <<>> THEN out ELSE addTokens(addDomain(out, Head(tokens)), Tail(tokens))

\* the loop of ParseDomains over the lines
RECURSIVE parseLines(_, _)
parseLines(out, lines) ==
  IF lines = <<>> THEN out
  ELSE LET line == TrimSpace(cutAtHash(Head(lines)))
       IN IF line = <<>> THEN parseLines(out, Tail(lines))
          ELSE parseLines(addTokens(out, Fields(replaceSeparators(line))), Tail(lines))

ParseDomains(text) == parseLines(<<>>, Split(normalizeNewlines(text)))

\* the texts: every text of up to MaxText characters of a small alphabet, and
\* some texts for the other separators, the other characters and the limits
TextChars == {"a", "A", ".", "_", "#", ",", SP, LF}

TestText ==
  <<LF, "#", SP, "a", LF, "A", ".", "a", LF, "a", ".", "b", ",", SP, "b", ".", "b", LF,
    "a", "_", "b", LF, "b", ".", "a", SP, "#", SP, "a", LF>>

LongestDomain == <<"a*63", ".", "a*63", ".", "a*63", ".", "a*61">>

SpecialTexts ==
  {TestText,
   <<"a", ".", "A", ".", ",", "A", ".", "a", ";", "a", "_", "a", ".", "a", "#", "a", LF, "b">>,
   <<"a", ";", "b", CR, LF, "B", ".", CR, "0", "-", ".", "a">>,
   <<"a", "#", "b", CR, "b", "#", CR, LF, "a">>,
   <<"a*63", ".", "a", SP, "a*64", ".", "a", SP, "b">>,
   LongestDomain,
   LongestDomain \o <<".", SP, "b">>,
   <<"a*63", ".", "a*63", ".", "a*63", ".", "a*62", SP, "b">>}

DomainTexts == distinctSeqs(TextChars, MaxText) \cup SpecialTexts

\* the call of ParseDomains
ParseRun ==
  /\ fn.pc = "called"
  /\ fn' = [fn EXCEPT !.pc = "parsed", !.out = ParseDomains(fn.text)]
  /\ UNCHANGED <<engineVars, obsVars, uiVars, hostsVars>>

\* no function is being called on its own
FnIdle == [pc |-> "idle"]

HostsIdle ==
  /\ mrg = MergeIdle /\ now = 0
  /\ files = [p \in Paths |-> NoFile]
  /\ hcall = CallIdle(files)

\* ------------------------------------------------------------ specification
EngineIdle ==
  /\ ctxDone = FALSE /\ runErr = "pending" /\ idx = 1 /\ chClosed = FALSE /\ done = 0
  /\ wk = [w \in Workers |-> worker("off")]
  /\ emitted = [p \in 1..Len(domains) |-> <<>>]
  /\ took = [p \in 1..Len(domains) |-> <<>>]
  /\ progressLog = <<>> /\ logCalls = 0

\* The arguments of a call. Explicit servers only add labels to the candidates
\* of a domain, so they are combined with the serial schedule only.
RunInputs ==
  {in \in [cfg : Configs, domains : DomainLists] :
     in.cfg.DNSServers # <<>> => in.cfg.Concurrency <= 1}

\* Run has just been called with a configuration and a domain list
Init ==
  /\ \E in \in RunInputs : cfg = in.cfg /\ domains = in.domains
  /\ runPc = "called"
  /\ EngineIdle
  /\ caller = "api" /\ uiCh = <<>> /\ dropped = {} /\ ui = UiInit
  /\ HostsIdle /\ fn = FnIdle

Next ==
  \/ RunStart
  \/ \E w \in Workers : RunDispatch(w)
  \/ RunCancelled
  \/ RunClose
  \/ RunReturn
  \/ \E w \in Workers : WorkerExit(w)
  \/ \E w \in Workers : WorkerResolve(w)
  \/ \E w \in Workers : WorkerLoop(w)
  \/ \E w \in Workers : WorkerTrial(w)
  \/ \E w \in Workers : WorkerLog(w)
  \/ \E w \in Workers : WorkerEmit(w)
  \/ \E w \in Workers : WorkerAdd(w)
  \/ \E w \in Workers : WorkerProgress(w)
  \/ Cancel

Spec == Init /\ [][Next]_vars

\* The steps of Run and of its workers, all but the cancellation of the scope.
\* The goroutines are scheduled, the lookups and the connection attempts
\* return within their timeouts and the callbacks return: a step of Run or of
\* a worker that stays possible is taken. Nothing is assumed about Cancel.
RunSteps ==
  \/ RunStart
  \/ \E w \in Workers : RunDispatch(w)
  \/ RunCancelled
  \/ RunClose
  \/ RunReturn
  \/ \E w \in Workers : WorkerExit(w)
  \/ \E w \in Workers : WorkerResolve(w)
  \/ \E w \in Workers : WorkerLoop(w)
  \/ \E w \in Workers : WorkerTrial(w)
  \/ \E w \in Workers : WorkerLog(w)
  \/ \E w \in Workers : WorkerEmit(w)
  \/ \E w \in Workers : WorkerAdd(w)
  \/ \E w \in Workers : WorkerProgress(w)

SpecLive == Init /\ [][Next]_vars /\ WF_vars(RunSteps)

\* ui.loop before the first click
InitUI ==
  /\ cfg \in {c \in UiConfigs : validate(c) = "invalid port" /\ c.Timeout = 0 /\ c.Attempts = 0
                                 /\ c.Concurrency = 0 /\ ~c.IPv4 /\ ~c.IPv6}
  /\ domains = <<>>
  /\ runPc = "idle"
  /\ EngineIdle
  /\ caller = "ui" /\ uiCh = <<>> /\ dropped = {} /\ ui = UiInit
  /\ HostsIdle /\ fn = FnIdle

NextUI ==
  \/ UIStartRejected
  \/ UIStartRun
  \/ UIStopRun
  \/ UIRecv
  \/ GoroutineDone
  \/ RunStart
  \/ \E w \in Workers : RunDispatch(w)
  \/ RunCancelled
  \/ RunClose
  \/ RunReturn
  \/ \E w \in Workers : WorkerExit(w)
  \/ \E w \in Workers : WorkerResolve(w)
  \/ \E w \in Workers : WorkerLoop(w)
  \/ \E w \in Workers : WorkerTrial(w)
  \/ \E w \in Workers : WorkerLog(w)
  \/ \E w \in Workers : WorkerEmit(w)
  \/ \E w \in Workers : WorkerAdd(w)
  \/ \E w \in Workers : WorkerProgress(w)

SpecUI == InitUI /\ [][NextUI]_vars

\* The UI with its scheduling: the steps of Run and of its workers are taken,
\* the goroutine of startRun goes on after Run has returned, and every
\* callback invalidates the window, so a frame is processed and uiCh is
\* drained while it holds a message. Nothing is assumed about the buttons.
SpecUILive ==
  InitUI /\ [][NextUI]_vars /\ WF_vars(RunSteps) /\ WF_vars(GoroutineDone) /\ WF_vars(UIRecv)

\* the UI with the results page and the preview page; the runs are serial
\* (the rows are filled by the drain loop alone, whatever the schedule)
NextRows ==
  \/ UIStartRejected
  \/ UIStartSerial
  \/ UIStopRun
  \/ UIRecv
  \/ GoroutineDone
  \/ RunStart
  \/ \E w \in Workers : RunDispatch(w)
  \/ RunCancelled
  \/ RunClose
  \/ RunReturn
  \/ \E w \in Workers : WorkerExit(w)
  \/ \E w \in Workers : WorkerResolve(w)
  \/ \E w \in Workers : WorkerLoop(w)
  \/ \E w \in Workers : WorkerTrial(w)
  \/ \E w \in Workers : WorkerLog(w)
  \/ \E w \in Workers : WorkerEmit(w)
  \/ \E w \in Workers : WorkerAdd(w)
  \/ \E w \in Workers : WorkerProgress(w)
  \/ \E i \in 1..MaxDomains : UIToggle(i)
  \/ \E mode \in {"all", "none", "ok"} : UISelect(mode)
  \/ UIPreview
  \/ UIWrite

SpecRows == InitUI /\ [][NextRows]_vars

\* a render/merge computation on an existing text and a mapping sequence
InitMerge ==
  /\ \E in \in MergeInputs :
       mrg = [MergeIdle EXCEPT !.pc = "called", !.existing = in.existing,
                               !.mappings = in.mappings]
  /\ now = 0 /\ files = [p \in Paths |-> NoFile] /\ hcall = CallIdle(files)
  /\ cfg \in {c \in UiConfigs : validate(c) = "invalid port" /\ c.Timeout = 0 /\ c.Attempts = 0
                                 /\ c.Concurrency = 0 /\ ~c.IPv4 /\ ~c.IPv6}
  /\ domains = <<>> /\ runPc = "idle" /\ EngineIdle
  /\ caller = "api" /\ uiCh = <<>> /\ dropped = {} /\ ui = UiInit
  /\ fn = FnIdle

NextMerge ==
  \/ MergeRender
  \/ MergeApply
  \/ MergeAgain

SpecMerge == InitMerge /\ [][NextMerge]_vars

\* one caller of WriteWithBackup and RestoreBackup on one target file
InitHosts ==
  /\ files \in InitialFiles
  /\ hcall = CallIdle(files)
  /\ now = 0 /\ mrg = MergeIdle
  /\ cfg \in {c \in UiConfigs : validate(c) = "invalid port" /\ c.Timeout = 0 /\ c.Attempts = 0
                                 /\ c.Concurrency = 0 /\ ~c.IPv4 /\ ~c.IPv6}
  /\ domains = <<>> /\ runPc = "idle" /\ EngineIdle
  /\ caller = "api" /\ uiCh = <<>> /\ dropped = {} /\ ui = UiInit
  /\ fn = FnIdle

NextHosts ==
  \/ Tick
  \/ WriteCall
  \/ WriteRead
  \/ WriteBackup
  \/ WriteStat
  \/ WriteTarget
  \/ RestoreCall
  \/ RestoreRead
  \/ RestoreStat
  \/ RestoreWrite

SpecHosts == InitHosts /\ [][NextHosts]_vars

\* the candidates of one domain with the outcomes of their attempt loops
InitRank ==
  /\ \E os \in [RankSet -> ProbeOutcomes] :
       fn = [pc |-> "probing", timeout |-> RankTimeout,
             stats |-> [k \in RankSet |-> loopStat(RankIPs[k], os[k])],
             cmp |-> <<>>, ranked |-> <<>>]
  /\ HostsIdle
  /\ cfg \in {c \in UiConfigs : validate(c) = "invalid port" /\ c.Timeout = 0 /\ c.Attempts = 0
                                 /\ c.Concurrency = 0 /\ ~c.IPv4 /\ ~c.IPv6}
  /\ domains = <<>> /\ runPc = "idle" /\ EngineIdle
  /\ caller = "api" /\ uiCh = <<>> /\ dropped = {} /\ ui = UiInit

NextRank ==
  \/ RankFinish
  \/ RankCompare
  \/ RankSort

SpecRank == InitRank /\ [][NextRank]_vars

\* ProbeCandidate has just been called, on a live or a cancelled scope
InitProbe ==
  /\ \E n \in 1..MaxTrials, c \in BOOLEAN :
       fn = [pc |-> "loop", st |-> newStat(1), i |-> 0, attempts |-> n,
             timeout |-> RankTimeout, ctx |-> c, started |-> 0, stoppedAt |-> 0,
             allOk |-> TRUE]
  /\ HostsIdle
  /\ cfg \in {c \in UiConfigs : validate(c) = "invalid port" /\ c.Timeout = 0 /\ c.Attempts = 0
                                 /\ c.Concurrency = 0 /\ ~c.IPv4 /\ ~c.IPv6}
  /\ domains = <<>> /\ runPc = "idle" /\ EngineIdle
  /\ caller = "api" /\ uiCh = <<>> /\ dropped = {} /\ ui = UiInit

NextProbe ==
  \/ ProbeLoop
  \/ ProbeDial
  \/ ProbeTail
  \/ ProbeCancel

SpecProbe == InitProbe /\ [][NextProbe]_vars

\* ResolveCandidates has just been called; a blank server is never asked, so
\* it has no answer
InitResolve ==
  /\ \E servers \in ResolveServerLists, f \in Families, sys \in RawAnswers :
       \E answers \in [1..Len(servers) -> RawAnswers] :
         /\ \A k \in 1..Len(servers) : servers[k] = BlankServer => answers[k] = LookupErr
         /\ fn = [pc |-> "called", sys |-> sys, servers |-> servers, answers |-> answers,
                  ipv4 |-> f.ipv4, ipv6 |-> f.ipv6, out |-> <<>>, out2 |-> <<>>]
  /\ HostsIdle
  /\ cfg \in {c \in UiConfigs : validate(c) = "invalid port" /\ c.Timeout = 0 /\ c.Attempts = 0
                                 /\ c.Concurrency = 0 /\ ~c.IPv4 /\ ~c.IPv6}
  /\ domains = <<>> /\ runPc = "idle" /\ EngineIdle
  /\ caller = "api" /\ uiCh = <<>> /\ dropped = {} /\ ui = UiInit

NextResolve ==
  \/ ResolveRun
  \/ ResolveAgain

SpecResolve == InitResolve /\ [][NextResolve]_vars

\* ParseDomains has just been called on a text
InitParse ==
  /\ \E text \in DomainTexts : fn = [pc |-> "called", text |-> text, out |-> <<>>]
  /\ HostsIdle
  /\ cfg \in {c \in UiConfigs : validate(c) = "invalid port" /\ c.Timeout = 0 /\ c.Attempts = 0
                                 /\ c.Concurrency = 0 /\ ~c.IPv4 /\ ~c.IPv6}
  /\ domains = <<>> /\ runPc = "idle" /\ EngineIdle
  /\ caller = "api" /\ uiCh = <<>> /\ dropped = {} /\ ui = UiInit

NextParse ==
  \/ ParseRun

SpecParse == InitParse /\ [][NextParse]_vars

\* ================================================================== claims
Submitted == 1..Len(domains)

\* C1: for a valid configuration and a non-empty list, OnResult is invoked
\* exactly once per submitted domain: never twice, and once Run has returned
\* (with nil or with the cancellation error) every domain has had its call.
C1_OneResultPerDomain ==
  /\ \A p \in Submitted : Len(emitted[p]) <= 1
  /\ (runPc = "returned" /\ runErr \in {ErrNil, ErrCanceled})
       => \A p \in Submitted : Len(emitted[p]) = 1

\* C2: Run returns nil or the cancellation error, and when the scope was
\* cancelled while Run was dispatching or while a worker was still processing
\* a domain, Run returns the cancellation error.
CancelledDuringRun ==
  \/ \E p \in Submitted : \E k \in 1..Len(emitted[p]) :
       emitted[p][k].cancelAt \in {"resolve", "loop", "probe", "log"}
  \/ ctxDone /\ idx <= Len(domains)

C2_CancelledRunReturnsCancellation ==
  (runPc = "returned" /\ Len(progressLog) > 0)
    => /\ runErr \in {ErrNil, ErrCanceled}
       /\ CancelledDuringRun => runErr = ErrCanceled

\* C3: a domain that was in flight when the scope was cancelled (the worker was
\* about to resolve it, at the head of the candidate loop, or inside the attempt
\* loop of one of its candidates) is emitted with the cancellation error.
C3_InFlightCancelGivesCancellation ==
  \A p \in Submitted : \A k \in 1..Len(emitted[p]) :
    emitted[p][k].cancelAt \in {"resolve", "loop", "probe"}
      => emitted[p][k].res.Err = ErrCanceled

\* C4: the done values passed to OnProgress are strictly increasing in call
\* order, starting at 0; total is the number of submitted domains, and a call
\* with done = k is made after k results have been emitted.
C4_ProgressStrictlyIncreasing ==
  \A a \in 1..Len(progressLog) :
    /\ a = 1 => progressLog[a].Done = 0
    /\ progressLog[a].Total = Len(domains)
    /\ progressLog[a].emitted >= progressLog[a].Done
    /\ \A b \in 1..Len(progressLog) : a < b => progressLog[a].Done < progressLog[b].Done

\* C5: Run returns once, after every worker has left its loop: from the state
\* in which Run has returned on, no OnResult, OnProgress or OnLog call is made
\* and the returned value stays.
C5_NoCallbackAfterReturn ==
  [][runPc = "returned"
       => /\ \A w \in Workers : wk[w].pc \in {"off", "exited"}
          /\ emitted' = emitted /\ progressLog' = progressLog /\ logCalls' = logCalls
          /\ runPc' = "returned" /\ runErr' = runErr]_vars

C5_Witness ==
  /\ runPc = "returned" /\ runErr = ErrCanceled
  /\ cfg.Concurrency = 2 /\ \A w \in Workers : wk[w].pc = "exited"
  /\ \E p \in Submitted : Len(emitted[p]) = 1

\* C6: a worker that receives a domain after the scope was cancelled makes no
\* lookup and probes no candidate for it.
C6_NoLookupAfterCancel ==
  \A w \in Workers :
    wk[w].ctxAtTake => wk[w].lookups = 0 /\ wk[w].pc \notin {"loop", "probe", "log"}

\* C7: without cancellation, a domain without candidates gets the error in its
\* own result only; every domain gets one result computed from its own
\* candidates, and Run returns nil.
C7_FailureStaysLocal ==
  ~ctxDone =>
    /\ \A p \in Submitted : \A k \in 1..Len(emitted[p]) :
         LET e == emitted[p][k] IN
         /\ e.res.Domain = domains[p]
         /\ IF e.cands = <<>>
            THEN e.res.Err = ErrNoCandidate /\ e.res.Best = NoStat /\ e.res.Candidates = <<>>
            ELSE /\ e.res.Err = ErrNil
                 /\ Len(e.res.Candidates) = Len(e.cands)
                 /\ {e.res.Candidates[c].IP : c \in 1..Len(e.cands)}
                      = {e.cands[c].IP : c \in 1..Len(e.cands)}
                 /\ e.res.Best = e.res.Candidates[1]
    /\ (runPc = "returned" /\ Len(progressLog) > 0)
         => runErr = ErrNil /\ \A p \in Submitted : Len(emitted[p]) = 1

C7_Witness ==
  /\ ~ctxDone /\ runPc = "returned" /\ Len(domains) = 2
  /\ Len(emitted[1]) = 1 /\ emitted[1][1].res.Err = ErrNoCandidate
  /\ Len(emitted[2]) = 1 /\ emitted[2][1].res.Err = ErrNil
  /\ Len(emitted[2][1].res.Candidates) = 2

\* C8: Run rejects a port outside 1..65535, a timeout, attempt count or
\* concurrency <= 0, no address family, or an empty list, with an error and
\* before any work: no worker is started and no callback is called. Every other
\* input is accepted: the first progress report is made and the workers start.
C8_Rejects ==
  LET bad == \/ cfg.Port < 1 \/ cfg.Port > 65535
             \/ cfg.Timeout <= 0 \/ cfg.Attempts <= 0 \/ cfg.Concurrency <= 0
             \/ (~cfg.IPv4 /\ ~cfg.IPv6)
             \/ Len(domains) = 0
  IN runPc # "called" =>
       IF bad
       THEN /\ runPc = "returned" /\ runErr \notin {"pending", ErrNil, ErrCanceled}
            /\ \A w \in Workers : wk[w].pc = "off"
            /\ progressLog = <<>> /\ logCalls = 0
            /\ \A p \in Submitted : emitted[p] = <<>>
       ELSE /\ Len(progressLog) >= 1 /\ progressLog[1].Done = 0
            /\ \A w \in Workers : wk[w].pc = "off" <=> w > cfg.Concurrency
            /\ runPc = "returned" => runErr \in {ErrNil, ErrCanceled}

C8_Witness ==
  /\ runPc = "returned" /\ runErr = "invalid port" /\ cfg.Port = 65536
  /\ cfg.Timeout > 0 /\ cfg.Attempts > 0 /\ cfg.Concurrency > 0 /\ cfg.IPv4
  /\ Len(domains) > 0

\* C9: no position of the submitted list is received by more than one worker,
\* and no two workers hold the same position at the same time.
C9_NoDomainTakenTwice ==
  /\ \A p \in Submitted : Len(took[p]) <= 1
  /\ \A v, w \in Workers : (v # w /\ wk[v].dom # 0) => wk[v].dom # wk[w].dom

C9_Witness ==
  /\ cfg.Concurrency = 2 /\ Len(domains) = 2
  /\ wk[1].pc = "probe" /\ wk[2].pc = "probe"
  /\ took[wk[1].dom] = <<1>> /\ took[wk[2].dom] = <<2>>

\* C10: on uiCh only log and progress messages are dropped by a full channel;
\* no result message and no completion message is.
C10_OnlyLogAndProgressDropped == dropped \subseteq {"log", "progress"}

\* ---------------------------------------------------- claims on the merge
Merged == mrg.pc \in {"merged", "repeated"}

\* the lines of a text, read as the merge reads them
LinesOf(text) == Split(normalizeNewlines(text))
IsMarkerLine(line, marker) == TrimSpace(line) = <<marker>>
MarkerLines(text, marker) ==
  LET ls == LinesOf(text) IN Cardinality({i \in 1..Len(ls) : IsMarkerLine(ls[i], marker)})

\* line i of the lines ls lies in a region delimited by a begin-marker line
\* and the end-marker line that follows it (both marker lines included)
InDelimitedRegion(ls, i) ==
  /\ \E j \in 1..i : /\ IsMarkerLine(ls[j], beginMarker)
                     /\ \A m \in j..(i - 1) : ~IsMarkerLine(ls[m], endMarker)
  /\ \E k \in i..Len(ls) : IsMarkerLine(ls[k], endMarker)

RECURSIVE DropTrailingBlank(_)
DropTrailingBlank(ls) ==
  IF ls # <<>> /\ ls[Len(ls)] = <<>> THEN DropTrailingBlank(SubSeq(ls, 1, Len(ls) - 1)) ELSE ls

\* the lines of the existing text outside every delimited region, in order
\* (a begin-marker line that no end-marker line follows is not counted as
\* foreign content itself; the lines after it are)
ForeignLines(text) ==
  LET ls == LinesOf(text)
      RECURSIVE pick(_)
      pick(i) == IF i > Len(ls) THEN <<>>
                 ELSE (IF InDelimitedRegion(ls, i) \/ IsMarkerLine(ls[i], beginMarker)
                       THEN <<>> ELSE <<ls[i]>>) \o pick(i + 1)
  IN pick(1)

NonBlankMapping(m) == TrimSpace(m.IP) # <<>> /\ TrimSpace(m.Domain) # <<>>

\* the lines of the result in front of the lines of the new block
PrefixLines(text, nBody) ==
  LET ls == LinesOf(text) IN SubSeq(ls, 1, Len(ls) - nBody - 3)

\* C16: the result of ApplyManagedBlock holds exactly one begin-marker line and
\* exactly one end-marker line, whatever markers the existing text holds
\* (several regions, a begin marker without an end marker, an end marker
\* without a begin marker in front of it).
C16_OneManagedRegion ==
  Merged => /\ MarkerLines(mrg.next, beginMarker) = 1
            /\ MarkerLines(mrg.next, endMarker) = 1

\* C17: merging the same rendered block into the result once more leaves the
\* result unchanged, with one begin-marker line and one end-marker line.
C17_MergeIdempotent ==
  mrg.pc = "repeated" => /\ mrg.again = mrg.next
                         /\ MarkerLines(mrg.again, beginMarker) = 1
                         /\ MarkerLines(mrg.again, endMarker) = 1

\* C18: the result ends with one LF-terminated copy of the new block: the begin
\* marker, one "<address> <domain>" line per non-blank mapping in input order,
\* the end marker; it holds no other begin-marker line, and of the lines in
\* front of the block none is a line of a managed region of the existing text.
C18_RegionReplaced ==
  Merged =>
    LET ls == LinesOf(mrg.next)
        nb == SelectSeq(mrg.mappings, NonBlankMapping)
        n == Len(nb)
        L == Len(ls)
        old == LinesOf(mrg.existing)
        pre == PrefixLines(mrg.next, n)
    IN /\ mrg.next = normalizeNewlines(mrg.next)
       /\ L >= n + 3
       /\ ls[L] = <<>> /\ ls[L - 1] = <<endMarker>> /\ ls[L - n - 2] = <<beginMarker>>
       /\ \A k \in 1..n :
            ls[L - n - 2 + k] = TrimSpace(nb[k].IP) \o <<SP>> \o TrimSpace(nb[k].Domain)
       /\ MarkerLines(mrg.next, beginMarker) = 1
       /\ \A c \in {pre[i] : i \in 1..Len(pre)} :
            Cardinality({i \in 1..Len(pre) : pre[i] = c})
              <= Cardinality({i \in 1..Len(old) : old[i] = c /\ ~InDelimitedRegion(old, i)})

\* a merge into a text that holds a region with a body line and foreign lines,
\* with a blank mapping among the mappings
C18_Witness ==
  /\ mrg.pc = "merged"
  /\ \E i \in 2..Len(LinesOf(mrg.existing)) :
       /\ InDelimitedRegion(LinesOf(mrg.existing), i)
       /\ ~IsMarkerLine(LinesOf(mrg.existing)[i], beginMarker)
       /\ ~IsMarkerLine(LinesOf(mrg.existing)[i], endMarker)
       /\ LinesOf(mrg.existing)[i] # <<>>
  /\ \E i \in 1..Len(LinesOf(mrg.existing)) :
       ~InDelimitedRegion(LinesOf(mrg.existing), i) /\ LinesOf(mrg.existing)[i] # <<>>
  /\ \E k \in 1..Len(mrg.mappings) : ~NonBlankMapping(mrg.mappings[k])
  /\ \E k \in 1..Len(mrg.mappings) : NonBlankMapping(mrg.mappings[k])

\* C19: the lines of the existing text outside the delimited regions are, but
\* for the line ends and the blank lines at their end, the lines of the result
\* in front of the new block, in the same order.
C19_ForeignContentPreserved ==
  Merged =>
    LET n == Len(SelectSeq(mrg.mappings, NonBlankMapping))
    IN DropTrailingBlank(PrefixLines(mrg.next, n)) = DropTrailingBlank(ForeignLines(mrg.existing))

\* ------------------------------------------- claims on the file protocol
WriteReturned == hcall.op = "write" /\ hcall.pc = "returned"
RestoreReturned == hcall.op = "restore" /\ hcall.pc = "returned"
PreTarget == hcall.pre[TargetPath]
SameFile(f, g) == f.exists = g.exists /\ f.content = g.content /\ f.mode = g.mode

\* C11: after a successful WriteWithBackup the returned backup file exists and
\* holds the original content exactly, the target holds the returned
\* newContent, and that is the merge of the rendered block into the original.
C11_BackupAndTargetAfterWrite ==
  (WriteReturned /\ hcall.err = ErrNil) =>
    /\ hcall.ret.backupPath \in BackupPaths
    /\ files[hcall.ret.backupPath].exists
    /\ files[hcall.ret.backupPath].content = PreTarget.content
    /\ files[TargetPath].content = hcall.ret.newContent
    /\ hcall.ret.newContent
         = ApplyManagedBlock(PreTarget.content, BuildManagedBlock(hcall.mappings))

\* a successful write on a file with CRLF line ends, with a mapping to write
C11_Witness ==
  /\ WriteReturned /\ hcall.err = ErrNil
  /\ \E i \in 1..Len(PreTarget.content) : PreTarget.content[i] = CR
  /\ hcall.mappings # <<>>
  /\ files[TargetPath].content # PreTarget.content

\* C12: a successful WriteWithBackup followed by a successful RestoreBackup
\* with the returned backup path leaves the target with the content it had
\* before the write.
C12_WriteRestoreRoundTrip ==
  (/\ RestoreReturned /\ hcall.err = ErrNil
   /\ hcall.last.op = "write" /\ hcall.last.err = ErrNil
   /\ hcall.backupArg = hcall.last.ret.backupPath)
    => files[TargetPath].content = hcall.last.orig

\* the round trip on a file with CRLF line ends
C12_Witness ==
  /\ RestoreReturned /\ hcall.err = ErrNil
  /\ hcall.last.op = "write" /\ hcall.last.err = ErrNil
  /\ hcall.backupArg = hcall.last.ret.backupPath
  /\ \E i \in 1..Len(hcall.last.orig) : hcall.last.orig[i] = CR
  /\ PreTarget.content # hcall.last.orig

\* C13: at every point of a call of WriteWithBackup the target still is as it
\* was before the call, or a backup file holds exactly the content the target
\* had before the call.
C13_BackupBeforeOverwrite ==
  hcall.op = "write" =>
    \/ SameFile(files[TargetPath], PreTarget)
    \/ \E p \in BackupPaths : files[p].exists /\ files[p].content = PreTarget.content

\* between the two file operations: the backup is written, the target is not yet
C13_Witness ==
  /\ hcall.op = "write" /\ hcall.pc = "write"
  /\ SameFile(files[TargetPath], PreTarget)
  /\ files[hcall.backupPath].exists /\ ~hcall.pre[hcall.backupPath].exists
  /\ hcall.newContent # PreTarget.content

\* C14: when reading the target fails, no file is written; when writing the
\* backup fails, the target is as before the call; both return the error with
\* an empty backup path and empty content.
C14_PersistenceErrorAborts ==
  WriteReturned =>
    /\ hcall.readOk = "no"
         => files = hcall.pre /\ hcall.err # ErrNil /\ hcall.ret = NoRet
    /\ hcall.backupOk = "no"
         => SameFile(files[TargetPath], PreTarget) /\ hcall.err # ErrNil /\ hcall.ret = NoRet

\* the write of the backup failed after the file was created
C14_Witness ==
  /\ WriteReturned /\ hcall.backupOk = "no"
  /\ PreTarget.exists /\ PreTarget.content # <<>>
  /\ \E p \in BackupPaths : files[p].exists /\ ~hcall.pre[p].exists

\* C15: a target that did not exist before the call is written with mode 0644
\* and holds the rendered block; a target that existed keeps its mode.
C15_MissingTargetCreated ==
  WriteReturned =>
    /\ ~PreTarget.exists
         => /\ files[TargetPath].exists
            /\ files[TargetPath].mode = DefaultMode
            /\ files[TargetPath].content = BuildManagedBlock(hcall.mappings)
    /\ PreTarget.exists => files[TargetPath].mode = PreTarget.mode

\* C20: RestoreBackup fails and leaves the target as it was when the backup
\* path is empty or blank or the backup cannot be read; when it succeeds the
\* target holds the content of the backup and the backup is as it was.
C20_RestoreContract ==
  RestoreReturned =>
    /\ (\/ TrimSpace(hcall.backupArg.name) = <<>>
        \/ hcall.backupArg \notin Paths
        \/ ~hcall.pre[hcall.backupArg].exists
        \/ hcall.readOk = "no")
         => hcall.err # ErrNil /\ SameFile(files[TargetPath], PreTarget)
    /\ hcall.err = ErrNil
         => /\ hcall.backupArg \in Paths
            /\ hcall.pre[hcall.backupArg].exists
            /\ files[TargetPath].content = hcall.pre[hcall.backupArg].content
            /\ SameFile(files[hcall.backupArg], hcall.pre[hcall.backupArg])

\* a restore that changed the target
C20_Witness ==
  /\ RestoreReturned /\ hcall.err = ErrNil
  /\ files[TargetPath].content # PreTarget.content
  /\ files[TargetPath].content = files[hcall.backupArg].content

\* ------------------------------------------------------------ ranking claims
Compared == fn.pc \in {"compared", "sorted"}

\* C21: better is a strict total order on the statistics of one domain's
\* candidates, whose addresses are pairwise distinct: no statistic ranks above
\* itself, ranking above is transitive, and of two distinct candidates exactly
\* one ranks above the other.
C21_StrictTotalOrder ==
  Compared =>
    /\ \A x \in RankSet : ~fn.cmp[<<x, x>>]
    /\ \A x, y, z \in RankSet : fn.cmp[<<x, y>>] /\ fn.cmp[<<y, z>>] => fn.cmp[<<x, z>>]
    /\ \A x, y \in RankSet : x # y => (fn.cmp[<<x, y>>] # fn.cmp[<<y, x>>])

\* three candidates that agree on every key but the address have been compared
C21_Witness ==
  /\ Compared
  /\ \A x, y \in RankSet : fn.stats[x].Samples = fn.stats[y].Samples
                            /\ fn.stats[x].Failures = fn.stats[y].Failures
  /\ fn.stats[1].Successes = 2
  /\ fn.cmp[<<1, 3>>] /\ fn.cmp[<<3, 2>>] /\ fn.cmp[<<1, 2>>]

\* the keys of the ranking, in order: k favours a over b
RateAbove(a, b) ==
  LET na == IF Attempts(a) = 0 THEN 1 ELSE Attempts(a)
      nb == IF Attempts(b) = 0 THEN 1 ELSE Attempts(b)
  IN a.Successes * nb > b.Successes * na

AddrBefore(a, b) ==
  \/ a % 2 = 1 /\ b % 2 = 0
  \/ a % 2 = b % 2 /\ a < b

Favours(k, a, b) ==
  CASE k = 1 -> RateAbove(a, b)
    [] k = 2 -> a.P95 < b.P95
    [] k = 3 -> a.P50 < b.P50
    [] k = 4 -> a.JitterStd < b.JitterStd
    [] k = 5 -> AddrBefore(a.IP, b.IP)

Differs(k, a, b) == Favours(k, a, b) \/ Favours(k, b, a)

FirstDiffering(a, b) == CHOOSE k \in 1..5 : Differs(k, a, b) /\ \A j \in 1..(k - 1) : ~Differs(j, a, b)

\* C22: a ranks above b exactly when the first key on which they differ, in the
\* order success rate (higher first), p95, p50, jitter, address (lower first),
\* favours a; a higher success rate wins whatever the latencies, and the best
\* of the ranked list has the highest rate and, among those, the lowest p95.
C22_FirstDifferingKey ==
  /\ Compared =>
       \A x, y \in RankSet :
         LET a == fn.stats[x]
             b == fn.stats[y]
         IN /\ fn.cmp[<<x, y>>] <=> (x # y /\ Favours(FirstDiffering(a, b), a, b))
            /\ RateAbove(a, b) => fn.cmp[<<x, y>>]
  /\ fn.pc = "sorted" =>
       \A j \in RankSet :
         /\ ~RateAbove(fn.ranked[j], fn.ranked[1])
         /\ ~RateAbove(fn.ranked[1], fn.ranked[j]) => fn.ranked[1].P95 <= fn.ranked[j].P95

\* the p95 decides a pair against a lower p50 and a lower address, and the
\* rate decides another pair against a lower p95
C22_Witness ==
  /\ fn.pc = "sorted"
  /\ \E x, y \in RankSet :
       LET a == fn.stats[x]
           b == fn.stats[y]
       IN /\ fn.cmp[<<x, y>>]
          /\ FirstDiffering(a, b) = 2 /\ b.P50 < a.P50 /\ AddrBefore(b.IP, a.IP)
  /\ \E x, y \in RankSet :
       LET a == fn.stats[x]
           b == fn.stats[y]
       IN fn.cmp[<<x, y>>] /\ FirstDiffering(a, b) = 1 /\ b.P95 < a.P95

\* C24: a candidate without a successful trial gets the per-attempt timeout as
\* p50, p95 and jitter, and in the ranked list no such candidate, cancelled
\* before its first trial or not, stands before a candidate with a successful
\* trial.
C24_FailedCandidatesLast ==
  /\ fn.pc \in {"probed", "compared", "sorted"} =>
       \A x \in RankSet :
         fn.stats[x].Successes = 0 =>
           /\ fn.stats[x].P50 = fn.timeout
           /\ fn.stats[x].P95 = fn.timeout
           /\ fn.stats[x].JitterStd = fn.timeout
  /\ fn.pc = "sorted" =>
       \A i, j \in RankSet :
         fn.ranked[i].Successes = 0 /\ fn.ranked[j].Successes > 0 => j < i

\* a candidate that was never tried and one whose trials all failed, both with
\* lower addresses, are ranked behind a slow candidate with one success
C24_Witness ==
  /\ fn.pc = "sorted"
  /\ Attempts(fn.stats[1]) = 0
  /\ fn.stats[3].Successes = 0 /\ fn.stats[3].Failures = MaxTrials
  /\ fn.stats[2].Successes = 1 /\ fn.stats[2].Failures > 0 /\ fn.stats[2].P95 = fn.timeout
  /\ fn.ranked[1].IP = 2 /\ fn.ranked[2].IP = 1 /\ fn.ranked[3].IP = 3

\* ------------------------------------------------------------ probe claim
\* C25: for the statistic ProbeCandidate returns with a budget of N attempts,
\* successes + failures is the number of trials started and at most N, and
\* successes is the number of samples; when the loop sees the cancellation in
\* front of trial k, trials k..N are not started and not counted, and the last
\* error is the cancellation; when every trial succeeds and the scope is never
\* cancelled, successes is N and failures 0.
C25_ProbeCounts ==
  fn.pc = "returned" =>
    /\ fn.st.Successes + fn.st.Failures = fn.started
    /\ fn.started <= fn.attempts
    /\ fn.st.Successes = Len(fn.st.Samples)
    /\ fn.stoppedAt > 0 =>
         /\ fn.started = fn.stoppedAt - 1
         /\ fn.st.LastError = ErrCanceled
    /\ fn.allOk /\ ~fn.ctx => fn.st.Successes = fn.attempts /\ fn.st.Failures = 0

\* with a budget of three, the first trial succeeded and the cancellation was
\* seen in front of the second
C25_Witness ==
  /\ fn.pc = "returned"
  /\ fn.attempts = MaxTrials /\ fn.stoppedAt = 2
  /\ fn.st.Successes = 1 /\ fn.st.Failures = 0

\* ------------------------------------------------------------ result claims
\* C23: a result without an error holds one statistic per resolved candidate,
\* with the candidate's address and resolution label, ordered so that each
\* statistic ranks above all later ones, and Best is the first of them.
C23_RankedResult ==
  \A p \in Submitted : \A k \in 1..Len(emitted[p]) :
    LET e == emitted[p][k]
        C == e.res.Candidates
    IN e.res.Err = ErrNil =>
         /\ Len(C) = Len(e.cands) /\ Len(C) > 0
         /\ \A j \in 1..Len(e.cands) :
              \E c \in 1..Len(C) : /\ C[c].IP = e.cands[j].IP
                                   /\ C[c].ResolvedVia = e.cands[j].ResolvedVia
                                   /\ \A c2 \in 1..Len(C) : C[c2].IP = C[c].IP => c2 = c
         /\ \A i, j \in 1..Len(C) : i < j => better(C[i], C[j])
         /\ e.res.Best = C[1]

\* a result whose two candidates, found by different sources, are ranked in
\* the reverse of the order in which they were probed
C23_Witness ==
  \E p \in Submitted : \E k \in 1..Len(emitted[p]) :
    LET e == emitted[p][k] IN
    /\ e.res.Err = ErrNil /\ Len(e.cands) = 2
    /\ e.cands[1].ResolvedVia # e.cands[2].ResolvedVia
    /\ e.res.Candidates[1].IP = e.cands[2].IP
    /\ e.res.Candidates[1].ResolvedVia = e.cands[2].ResolvedVia
    /\ e.res.Best.IP = e.cands[2].IP

\* C29: a domain's result carries the resolution error exactly when no
\* candidate was found; then it has no best statistic and no ranked list, and
\* no candidate loop is entered for the domain; a domain with a candidate never
\* gets the resolution error, whichever sources failed.
C29_ResolutionFailure ==
  /\ \A p \in Submitted : \A k \in 1..Len(emitted[p]) :
       LET e == emitted[p][k] IN
       /\ e.res.Err = ErrNoCandidate <=> e.cands = <<>>
       /\ e.cands = <<>> => e.res.Best = NoStat /\ e.res.Candidates = <<>>
  /\ \A w \in Workers :
       /\ wk[w].pc \in {"loop", "probe", "log"} => wk[w].cands # <<>>
       /\ wk[w].pc = "emit" /\ wk[w].cands = <<>> =>
            wk[w].stats = <<>> /\ wk[w].res.Err = ErrNoCandidate

\* in one run without cancellation, a domain without candidates got the
\* resolution error and a domain found by the explicit server only got none
C29_Witness ==
  /\ ~ctxDone /\ runPc = "returned"
  /\ \E p, q \in Submitted :
       /\ Len(emitted[p]) = 1 /\ Len(emitted[q]) = 1
       /\ emitted[p][1].cands = <<>> /\ emitted[p][1].res.Err = ErrNoCandidate
       /\ Len(emitted[q][1].cands) = 1 /\ emitted[q][1].cands[1].ResolvedVia = DNS1
       /\ emitted[q][1].res.Err = ErrNil

\* ------------------------------------------------------------ resolution claims
Resolved == fn.pc \in {"resolved", "again"}

\* the sources in their fixed order: 0 is the system resolver, k the k-th server
Sources == 0..Len(fn.servers)
SrcAnswer(k) == IF k = 0 THEN fn.sys ELSE fn.answers[k]
SrcAsked(k) == k = 0 \/ fn.servers[k] \notin {"", BlankServer}
SrcSucceeded(k) == SrcAsked(k) /\ ~SrcAnswer(k).err
FamilyEnabled(a) == IF a % 2 = 1 THEN fn.ipv4 ELSE fn.ipv6

\* the address values source k adds to the candidates
SrcValues(k) ==
  IF ~SrcSucceeded(k) THEN {}
  ELSE {x \in {AddrFromSlice(SrcAnswer(k).ips[i]) : i \in 1..Len(SrcAnswer(k).ips)} :
          x \notin {-1, 0} /\ FamilyEnabled(x)}

FirstSource(x) == CHOOSE k \in Sources : x \in SrcValues(k) /\ \A j \in 0..(k - 1) : x \notin SrcValues(j)

TrimmedId(s) == IF s = PaddedDNS1 THEN DNS1 ELSE s

\* C26 as stated: the label of a candidate is that of the first source, in the
\* order system, then the servers as configured, that resolved its address,
\* and the label of a server is its identifier as given.
C26_FirstSourceLabelAsGiven ==
  Resolved =>
    \A c \in 1..Len(fn.out) :
      /\ \E k \in Sources : fn.out[c].IP \in SrcValues(k)
      /\ LET k == FirstSource(fn.out[c].IP)
         IN fn.out[c].ResolvedVia = IF k = 0 THEN "system" ELSE fn.servers[k]

\* C26, amended: the label of a candidate is that of the first source, in the
\* order system, then the servers as configured, that resolved its address;
\* the label of a server is its identifier without the surrounding white space.
C26_FirstSourceLabel ==
  Resolved =>
    \A c \in 1..Len(fn.out) :
      /\ \E k \in Sources : fn.out[c].IP \in SrcValues(k)
      /\ LET k == FirstSource(fn.out[c].IP)
         IN fn.out[c].ResolvedVia = IF k = 0 THEN "system" ELSE TrimmedId(fn.servers[k])

\* an address resolved by all three sources keeps the label system, and one
\* resolved by both servers the label of the first server
C26_Witness ==
  /\ Resolved /\ fn.servers = <<DNS1, DNS2>>
  /\ \E c, d \in 1..Len(fn.out) :
       /\ \A k \in Sources : fn.out[c].IP \in SrcValues(k)
       /\ fn.out[c].ResolvedVia = "system"
       /\ fn.out[d].IP \notin SrcValues(0)
       /\ fn.out[d].IP \in SrcValues(1) /\ fn.out[d].IP \in SrcValues(2)
       /\ fn.out[d].ResolvedVia = DNS1

\* the order of the addresses: by family, then :: first, the IPv4-mapped
\* addresses by the address they hold, then the ordinary ones
AddrKey(x) ==
  <<IF x % 2 = 1 THEN 0 ELSE 1,
    IF x % 2 = 1 \/ x = 0 THEN 0 ELSE IF x < 0 THEN 1 ELSE 2,
    IF x % 2 = 0 /\ x < 0 THEN -x - 3 ELSE x>>

AddrOrder(x, y) ==
  LET p == AddrKey(x)
      q == AddrKey(y)
  IN \/ p[1] < q[1]
     \/ p[1] = q[1] /\ p[2] < q[2]
     \/ p[1] = q[1] /\ p[2] = q[2] /\ p[3] < q[3]

\* C27: the candidates are strictly increasing by address, so no address
\* occurs twice, and the output is the same when every source returns its
\* addresses in another order.
C27_StrictlyIncreasing ==
  /\ Resolved =>
       \A i, j \in 1..Len(fn.out) : i < j => AddrOrder(fn.out[i].IP, fn.out[j].IP)
  /\ fn.pc = "again" => fn.out2 = fn.out

\* three candidates of both families from sources that returned two addresses
\* each, the first source in descending order
C27_Witness ==
  /\ fn.pc = "again"
  /\ Len(fn.out) = 3 /\ fn.ipv4 /\ fn.ipv6
  /\ ~fn.sys.err /\ Len(fn.sys.ips) = 2
  /\ AddrOrder(AddrFromSlice(fn.sys.ips[2]), AddrFromSlice(fn.sys.ips[1]))
  /\ fn.out[1].IP = AddrFromSlice(fn.sys.ips[2])
  /\ \E k \in DOMAIN fn.answers : ~fn.answers[k].err /\ Len(fn.answers[k].ips) = 2
                                   /\ fn.answers[k].ips # fn.sys.ips

\* the addresses the sources returned, as addresses of their family, without
\* the unspecified ones
Returned(k) ==
  IF ~SrcSucceeded(k) THEN {}
  ELSE {b.a : b \in {SrcAnswer(k).ips[i] : i \in 1..Len(SrcAnswer(k).ips)}} \ {-1, 0}

\* C28: the candidate addresses are the union, over the sources whose lookup
\* succeeded, of the returned addresses of the enabled families; a failing
\* source adds nothing and stops nothing, and no candidate is an address of a
\* disabled family. (Stated for the addresses other than 0.0.0.0 and ::, which
\* the code leaves out on purpose.)
C28_BestEffortUnion ==
  Resolved =>
    /\ {Unmap(fn.out[c].IP) : c \in 1..Len(fn.out)}
         = {a \in UNION {Returned(k) : k \in Sources} : FamilyEnabled(a)}
    /\ \A c \in 1..Len(fn.out) : FamilyEnabled(Unmap(fn.out[c].IP))

\* ------------------------------------------------------------ parsing claim
\* position i of the text lies in a comment: a '#' stands at or before it on
\* its line
InComment(t, i) ==
  \E j \in 1..i : t[j] = "#" /\ \A k \in j..i : t[k] \notin {LF, CR}

\* position i separates tokens
Separates(t, i) == InComment(t, i) \/ t[i] \in {SP, LF, CR, ",", ";"}

\* the tokens: the maximal runs of positions that do not separate, as pairs
\* of their first and last position
TokenSpans(t) ==
  {sp \in (1..Len(t)) \X (1..Len(t)) :
     /\ sp[1] <= sp[2]
     /\ \A i \in sp[1]..sp[2] : ~Separates(t, i)
     /\ sp[1] = 1 \/ Separates(t, sp[1] - 1)
     /\ sp[2] = Len(t) \/ Separates(t, sp[2] + 1)}

\* a token in lower case, without one trailing dot
Lowered(c) == IF c = "A" THEN "a" ELSE IF c = "B" THEN "b" ELSE c

Normalized(t, sp) ==
  LET last == IF t[sp[2]] = "." THEN sp[2] - 1 ELSE sp[2]
  IN [k \in 1..(last - sp[1] + 1) |-> Lowered(t[sp[1] + k - 1])]

CharCount(c) == IF c = "a*61" THEN 61 ELSE IF c = "a*62" THEN 62
                ELSE IF c = "a*63" THEN 63 ELSE IF c = "a*64" THEN 64 ELSE 1

RECURSIVE Length(_)
Length(d) == IF d = <<>> THEN 0 ELSE CharCount(Head(d)) + Length(Tail(d))

\* the Domain invariant: at most 253 characters, labels of 1 to 63 characters
\* from a-z, 0-9 and '-'
ValidDomain(d) ==
  /\ d # <<>> /\ Length(d) <= 253
  /\ d[1] # "." /\ d[Len(d)] # "."
  /\ \A i \in 1..(Len(d) - 1) : ~(d[i] = "." /\ d[i + 1] = ".")
  /\ \A i \in 1..Len(d) : d[i] \in {".", "-", "0", "a", "b", "a*61", "a*62", "a*63", "a*64"}
  /\ \A i, j \in 1..Len(d) :
       (i <= j /\ \A k \in i..j : d[k] # ".") => Length(SubSeq(d, i, j)) <= 63

\* the spans of the valid tokens whose domain no earlier valid token has
FirstSeen(t) ==
  {sp \in TokenSpans(t) :
     /\ ValidDomain(Normalized(t, sp))
     /\ \A sq \in TokenSpans(t) :
          sq[1] < sp[1] => Normalized(t, sq) # Normalized(t, sp)}

\* C30: ParseDomains returns the distinct normalized domains of the valid
\* tokens in first-seen order: tokens are split on white space, comma and
\* semicolon, the text from the first '#' of a line on gives nothing, a token
\* is put in lower case and loses one trailing dot, an invalid token is dropped
\* and a domain that occurred before is not repeated.
C30_ParseDomains ==
  fn.pc = "parsed" =>
    LET spans == FirstSeen(fn.text) IN
    /\ Len(fn.out) = Cardinality(spans)
    /\ \A sp \in spans :
         fn.out[1 + Cardinality({sq \in spans : sq[1] < sp[1]})] = Normalized(fn.text, sp)

\* the text of TestParseDomains: a comment line, a capital, two separators, an
\* invalid token and a trailing comment give four domains
C30_Witness ==
  /\ fn.pc = "parsed" /\ fn.text = TestText
  /\ fn.out = <<<<"a", ".", "a">>, <<"a", ".", "b">>, <<"b", ".", "b">>, <<"b", ".", "a">>>>

\* ------------------------------------------------------ claims on scheduling
\* the workers that hold a domain whose result is not emitted yet
InFlight == {w \in Workers : wk[w].pc \in InFlightPcs}

\* C31: at every moment the number of domains taken from the queue whose
\* result is not yet emitted is at most the configured concurrency, and within
\* one domain the candidates are probed one at a time, in the address order
\* of the resolver: the statistics gathered so far are those of the first
\* candidates, and the candidate being probed is the next one.
C31_BoundedConcurrency ==
  /\ Cardinality(InFlight) <= cfg.Concurrency
  /\ \A w \in InFlight :
       LET r == wk[w] IN
       /\ \A a, b \in 1..Len(r.cands) : a < b => Less(r.cands[a].IP, r.cands[b].IP)
       /\ r.pc \in {"loop", "probe", "log"} =>
            /\ r.k \in 1..Len(r.cands)
            /\ Len(r.stats) = (IF r.pc = "log" THEN r.k ELSE r.k - 1)
            /\ \A j \in 1..Len(r.stats) : r.stats[j].IP = r.cands[j].IP
            /\ r.pc = "probe" => r.st.IP = r.cands[r.k].IP

\* concurrency 1 and two domains: the second candidate of the first domain is
\* being probed while the dispatcher holds the second domain
C31_Witness ==
  /\ cfg.Concurrency = 1 /\ Len(domains) = 2 /\ runPc = "dispatch" /\ idx = 2
  /\ Cardinality(InFlight) = 1
  /\ \E w \in InFlight : wk[w].pc = "probe" /\ wk[w].k = 2 /\ Len(wk[w].stats) = 1

\* C32: when the lookups, the connection attempts and the callbacks return,
\* every call of Run completes: Run returns and every worker that was started
\* has left its loop, whether all domains were dispatched or the cancellation
\* was observed during the dispatch, also with more workers than domains.
C32_RunTerminates ==
  <>(runPc = "returned" /\ \A w \in Workers : wk[w].pc \in {"off", "exited"})

\* the cancellation observed during the dispatch, with more workers than domains
C32_Witness ==
  /\ runPc = "returned" /\ runErr = ErrCanceled
  /\ cfg.Concurrency = 2 /\ Len(domains) = 1 /\ emitted[1] = <<>>
  /\ \A w \in Workers : wk[w].pc = "exited"

\* ------------------------------------------------- claims on the snapshots
\* C33: the backup file returned by a successful write keeps holding the
\* content the target had immediately before that write, whatever calls
\* follow (a write in the same second of the clock included).
C33_BackupsKept ==
  /\ (WriteReturned /\ hcall.err = ErrNil)
       => /\ files[hcall.ret.backupPath].exists
          /\ files[hcall.ret.backupPath].content = PreTarget.content
  /\ (hcall.last.op = "write" /\ hcall.last.err = ErrNil)
       => /\ files[hcall.last.ret.backupPath].exists
          /\ files[hcall.last.ret.backupPath].content = hcall.last.orig

\* ------------------------------------------- claims on an unclosed region
\* line b of ls is a begin-marker line that no end-marker line follows
Unterminated(ls, b) ==
  /\ IsMarkerLine(ls[b], beginMarker)
  /\ \A k \in (b + 1)..Len(ls) : ~IsMarkerLine(ls[k], endMarker)

FirstUnterminated(ls) ==
  CHOOSE b \in 1..Len(ls) : Unterminated(ls, b) /\ \A c \in 1..(b - 1) : ~Unterminated(ls, c)

\* the lines in front of line b that lie in no delimited region, in order
KeptBefore(ls, b) ==
  LET RECURSIVE pick(_)
      pick(i) == IF i >= b THEN <<>>
                 ELSE (IF InDelimitedRegion(ls, i) THEN <<>> ELSE <<ls[i]>>) \o pick(i + 1)
  IN pick(1)

\* C34: when the existing text holds a begin-marker line that no end-marker
\* line follows, the merge removes everything from the first such line to the
\* end of the text, and keeps the lines in front of it (those outside an
\* earlier closed region, with LF line ends and without the blank lines at
\* their end, as for every merge): they are the lines in front of the new block.
C34_UnclosedRegionRemoved ==
  (Merged /\ \E b \in 1..Len(LinesOf(mrg.existing)) : Unterminated(LinesOf(mrg.existing), b))
    => LET ls == LinesOf(mrg.existing)
           n == Len(SelectSeq(mrg.mappings, NonBlankMapping))
       IN DropTrailingBlank(PrefixLines(mrg.next, n))
            = DropTrailingBlank(KeptBefore(ls, FirstUnterminated(ls)))

\* a foreign line, a begin marker without an end marker, another foreign line
C34_Witness ==
  /\ mrg.pc = "merged"
  /\ LET ls == LinesOf(mrg.existing) IN
     /\ Len(ls) >= 3
     /\ \E b \in 2..(Len(ls) - 1) :
          /\ Unterminated(ls, b) /\ FirstUnterminated(ls) = b
          /\ ls[b - 1] = <<"127.0.0.1", SP, "localhost">>
          /\ ls[b + 1] = <<"10.0.0.1", SP, "nas">>
  /\ LinesOf(mrg.next)[1] = <<"127.0.0.1", SP, "localhost">>
  /\ \A i \in 1..Len(LinesOf(mrg.next)) : LinesOf(mrg.next)[i] # <<"10.0.0.1", SP, "nas">>

\* ------------------------------------------------------- claims on the UI
\* no engine run is active: Run was not called, or its goroutine has sent the
\* completion message, and no worker is left
RunInactive ==
  /\ runPc \in {"idle", "reported"}
  /\ \A w \in Workers : wk[w].pc \in {"off", "exited"}

\* C35: a run is started only while running is false, and then no run is
\* active and uiCh holds no message (so no result, progress or log message of
\* an earlier run is applied after the new run has started); running becomes
\* false only when the completion message of the run is taken from uiCh.
C35_SingleActiveRun ==
  [][/\ UIStartRun => (~ui.running /\ RunInactive /\ uiCh = <<>>)
     /\ (ui.running /\ ~ui'.running)
          => (uiCh # <<>> /\ Head(uiCh).type = "done" /\ runPc = "reported"
              /\ uiCh' = <<>>)
     /\ (~ui.running /\ ~ui'.running) => (RunInactive /\ uiCh = <<>>)]_vars

\* the completion of a run with two results has been processed: a new run
\* can be started
C35_Witness ==
  /\ ~ui.running /\ runPc = "reported" /\ uiCh = <<>>
  /\ Len(ui.rows) = 2 /\ ui.done = 2 /\ ui.logLines > 0
  /\ ENABLED UIStartRun

\* C36: after Run has returned, with or without cancellation, the UI
\* eventually processes the completion message and leaves the running state,
\* whatever the interleaving of the callbacks and the frames, also when uiCh
\* is full.
C36_CompletionProcessed == (runPc = "returned") ~> ~ui.running

\* the rows of domain d, and a row as the latest result left it
RowsOf(rows, d) == {i \in 1..Len(rows) : rows[i].Domain = d}
GoodRow(r) == r.Message = "" /\ r.BestIP # <<>>

\* C37: the mappings passed on by the preview and the write button are those
\* of the rows that are checked, have a best address and carry no message,
\* one per domain at most. The row of a domain carries a message and no
\* address exactly when the latest result of the domain had an error, and
\* neither a check box nor a selection button changes that: a domain whose
\* latest result has an error is in no mapping.
C37_MappingsFromGoodRows ==
  [][/\ \A d \in 1..MaxDomains : Cardinality(RowsOf(ui'.rows, d)) <= 1
     \* a result is applied: the row of its domain is good iff it has no error
     /\ (uiCh # <<>> /\ Head(uiCh).type = "result" /\ uiCh' = Tail(uiCh))
          => LET res == Head(uiCh).body IN
             \E i \in RowsOf(ui'.rows, res.Domain) :
               LET r == ui'.rows[i] IN
               IF res.Err # ErrNil
               THEN r.Message = res.Err /\ r.BestIP = <<>> /\ ~GoodRow(r)
               ELSE /\ r.Message = "" /\ r.BestIP = String(res.Best.IP) /\ GoodRow(r)
                    /\ \E c \in 1..Len(res.Candidates) : res.Best = res.Candidates[c]
     \* any other step within a run leaves the rows as the results left them
     /\ (uiCh' = uiCh /\ ui'.running = ui.running)
          => /\ Len(ui'.rows) = Len(ui.rows)
             /\ \A i \in 1..Len(ui.rows) :
                  /\ ui'.rows[i].Domain = ui.rows[i].Domain
                  /\ ui'.rows[i].Message = ui.rows[i].Message
                  /\ ui'.rows[i].BestIP = ui.rows[i].BestIP
     \* a click that passes mappings on
     /\ (clicks(fn') > clicks(fn) /\ fn'.passed)
          => LET ms == fn'.ms IN
             /\ \A k \in 1..Len(ms) :
                  \E i \in 1..Len(ui.rows) :
                    /\ ui.rows[i].Apply /\ GoodRow(ui.rows[i])
                    /\ ms[k] = [IP |-> ui.rows[i].BestIP, Domain |-> ui.rows[i].Domain]
             /\ \A j, k \in 1..Len(ms) : j # k => ms[j].Domain # ms[k].Domain]_vars

\* the write button with two rows checked: the row of a domain without
\* candidates, checked by hand, and the row of a domain with a best address
C37_Witness ==
  /\ fn.pc = "clicked" /\ fn.op = "write" /\ Len(fn.ms) = 1
  /\ fn.ms = buildMappings(ui.rows)
  /\ Len(ui.rows) = 2
  /\ \E i, j \in 1..2 :
       /\ ui.rows[i].Apply /\ ui.rows[i].Message = ErrNoCandidate
       /\ ui.rows[j].Apply /\ GoodRow(ui.rows[j]) /\ fn.ms[1].Domain = ui.rows[j].Domain

====
